---- MODULE Spec2Model ----
(***************************************************************************)
(* Deposit tracking service (deposit-tracking.service.ts): block ingestion *)
(* per (chain, network), deposit rows, the confirmation pass, the spot     *)
(* balance credit and the persisted last-processed-block checkpoint.       *)
(*                                                                         *)
(* Every `await` of the service is a point where another timer callback or *)
(* event callback may run, so each monitor is a set of callbacks with a    *)
(* program counter, and one action is the code between two awaits (or a    *)
(* whole synchronous helper).                                              *)
(***************************************************************************)
EXTENDS Integers, Sequences, FiniteSets, TLC

(* ------------------------------ bounds --------------------------------- *)
\* height of the last block processed before the service was last started
ResumeHeight == 9
\* blocks a chain grows by while the service runs
MaxNewBlocks == 2
\* timer callbacks of one monitor that may be in flight at the same time
MaxTicks == 2
\* timer firings per run
MaxTickStarts == 2
\* adapter / storage failures injected per run
MaxFaults == 1

(* --------------------------- program constants ------------------------- *)
CONFIRMATION_BLOCKS ==
  [eth |-> [mainnet |-> 12, testnet |-> 5],
   bsc |-> [mainnet |-> 15, testnet |-> 6],
   btc |-> [mainnet |-> 3,  testnet |-> 2],
   trx |-> [mainnet |-> 20, testnet |-> 10],
   xrp |-> [mainnet |-> 4,  testnet |-> 2]]

CHAIN_KEYS ==
  [eth |-> "eth", bsc |-> "bsc", bitcoin |-> "btc", trx |-> "trx", xrp |-> "xrp"]

\* const batchSize = 5 in checkTronBlocks
TronBatchSize == 5
\* getTronBlockWithRetry(tronWeb, height, 3)
TronMaxRetries == 3

Null == "null"
\* a missing checkpoint row, a null blockNumber, a missing balance row, no token
NoSetting == << >>
NoBlock == 0 - 1
NoBalance == 0 - 1
NoToken == [id |-> Null]
Networks == {"mainnet", "testnet"}

(* ------------------------- tokens, wallets, chain ---------------------- *)
\* rows of the token registry (read only)
Tokens ==
  { [id |-> "tkTRX", symbol |-> "TRX", baseSymbol |-> Null, blockchain |-> "trx",
     contractAddress |-> Null, networkVersion |-> "NATIVE", decimals |-> 6,
     isActive |-> TRUE],
    [id |-> "tkUSDT", symbol |-> "USDT", baseSymbol |-> "USDT", blockchain |-> "trx",
     contractAddress |-> Null, networkVersion |-> "TRC20", decimals |-> 6,
     isActive |-> TRUE],
    [id |-> "tkOLD", symbol |-> "OLD", baseSymbol |-> Null, blockchain |-> "trx",
     contractAddress |-> Null, networkVersion |-> "TRC20", decimals |-> 6,
     isActive |-> FALSE],
    [id |-> "tkETH", symbol |-> "ETH", baseSymbol |-> Null, blockchain |-> "eth",
     contractAddress |-> Null, networkVersion |-> "NATIVE", decimals |-> 18,
     isActive |-> TRUE],
    [id |-> "tkUSDC", symbol |-> "USDC", baseSymbol |-> "USDC", blockchain |-> "eth",
     contractAddress |-> "0xc", networkVersion |-> "ERC20", decimals |-> 6,
     isActive |-> TRUE],
    [id |-> "tkXRP", symbol |-> "XRP", baseSymbol |-> Null, blockchain |-> "xrp",
     contractAddress |-> Null, networkVersion |-> "NATIVE", decimals |-> 6,
     isActive |-> TRUE],
    [id |-> "tkXRPold", symbol |-> "XRP", baseSymbol |-> Null, blockchain |-> "xrp",
     contractAddress |-> Null, networkVersion |-> "NATIVE", decimals |-> 6,
     isActive |-> FALSE],
    [id |-> "tkBTC", symbol |-> "BTC", baseSymbol |-> Null, blockchain |-> "btc",
     contractAddress |-> Null, networkVersion |-> "NATIVE", decimals |-> 8,
     isActive |-> TRUE] }

\* rows of the wallet directory (read only)
Wallets ==
  { [id |-> "w1", userId |-> "u1", address |-> "TA", blockchain |-> "trx",
     network |-> "testnet"],
    [id |-> "w2", userId |-> "u2", address |-> "TB", blockchain |-> "trx",
     network |-> "mainnet"],
    [id |-> "w3", userId |-> "u1", address |-> "0xabc", blockchain |-> "eth",
     network |-> "mainnet"],
    [id |-> "w4", userId |-> "u2", address |-> "rA", blockchain |-> "xrp",
     network |-> "testnet"] }

Users == {"u1", "u2"}
Symbols == {"TRX", "USDT", "ETH", "USDC", "XRP", "BTC"}

\* tronWeb.address.fromHex: hex encoded address to base58
fromHex(hex) ==
  CASE hex = "41aa" -> "TA"
    [] hex = "41bb" -> "TB"
    [] hex = "41cc" -> "TC"
    [] OTHER -> hex

TronTx(id, type, to, asset, amount) ==
  [txID |-> id, type |-> type, to_address |-> to, owner_address |-> "41cc",
   asset_name |-> asset, amount |-> amount]

\* the transactions of the Tron block at a height
TronChain(net, h) ==
  IF net = "testnet" /\ h = 1
    THEN << TronTx("t1", "TransferAssetContract", "41aa", "USDT", 3),
            TronTx("t2", "TransferAssetContract", "41aa", "USDT", 5),
            TronTx("t3", "TransferContract", "41cc", Null, 1) >>
  ELSE IF net = "testnet" /\ h = ResumeHeight + 1
    THEN << TronTx("t5", "TransferAssetContract", "41aa", "OLD", 4),
            TronTx("t6", "TriggerSmartContract", "41aa", Null, 0) >>
  ELSE IF net = "testnet" /\ h = ResumeHeight + 2
    THEN << TronTx("t4", "TransferContract", "41aa", Null, 2),
            TronTx("t7", "TransferAssetContract", "41aa", "USDT", 1) >>
  ELSE << >>

\* String.prototype.toLowerCase on the addresses of the model
toLowerCase(a) ==
  CASE a = "0xABC" -> "0xabc"
    [] a = "0xC" -> "0xc"
    [] a = "0xDEAD" -> "0xdead"
    [] OTHER -> a

\* a uint256 of the chain, m * 10^e
Wei(m, e) == [m |-> m, e |-> e]

EvmTx(hash, to, data, value, logs, h) ==
  [hash |-> hash, to |-> to, data |-> data, value |-> value, logs |-> logs,
   blockNumber |-> h, from |-> "0x1"]

\* a Transfer(from, to, value) log of a receipt
TransferLog(to, value) == [name |-> "Transfer", to |-> to, value |-> value]

\* the transactions of the EVM block at a height
EvmChain(c, n, h) ==
  IF c = "eth" /\ n = "mainnet" /\ h = ResumeHeight + 1
    THEN << EvmTx("e1", "0xABC", "0x", Wei(1, 18), << >>, h),
            EvmTx("e2", "0xC", "0xa9059cbb", Wei(0, 0),
                  << TransferLog("0xabc", Wei(5, 6)) >>, h) >>
  ELSE IF c = "eth" /\ n = "mainnet" /\ h = ResumeHeight + 2
    THEN << EvmTx("e3", "0xDEAD", "0x", Wei(2, 18), << >>, h),
            EvmTx("e4", Null, "0x6080", Wei(0, 0), << >>, h) >>
  ELSE << >>

XrpTx(hash, type, destination, amount, h) ==
  [hash |-> hash, TransactionType |-> type, Destination |-> destination,
   Amount |-> amount, Account |-> "rZ", ledger_index |-> h]

\* the transactions of the XRP ledger at an index
XrpChain(n, h) ==
  IF n = "testnet" /\ h = ResumeHeight + 1
    THEN << XrpTx("x1", "Payment", "rA", 25, h),
            XrpTx("x2", "OfferCreate", "rA", 0, h),
            XrpTx("x3", "Payment", "rB", 7, h) >>
  ELSE IF n = "testnet" /\ h = ResumeHeight + 2
    THEN << XrpTx("x4", "Payment", "rA", 4, h) >>
  ELSE << >>

\* the wallets of the exchange for Bitcoin testnet, stored with a chain value
BtcWalletRows(chainValue) ==
  { [id |-> "w5", userId |-> "u1", address |-> "bc1q1", blockchain |-> chainValue,
     network |-> "testnet"],
    [id |-> "w6", userId |-> "u2", address |-> "bc1q3", blockchain |-> chainValue,
     network |-> "testnet"] }

\* an output of a Bitcoin transaction: vout[i].scriptPubKey.addresses and
\* vout[i].value, the value in units of 10^-6 BTC
BtcOut(addresses, value) == [addresses |-> addresses, value |-> value]

\* a transaction of a `getblock` answer of verbosity 2; it has no blockHeight
BtcTx(txid, vout) == [txid |-> txid, vout |-> vout, blockHeight |-> NoBlock]

\* the transactions of the Bitcoin block at a height
BtcChain(n, h) ==
  IF n = "testnet" /\ h = ResumeHeight + 1
    THEN << BtcTx("b1", << BtcOut(<< "bc1q1" >>, 100000), BtcOut(<< "bc1q2" >>, 200000),
                           BtcOut(<< "bc1q3" >>, 300000) >>) >>
  ELSE IF n = "testnet" /\ h = ResumeHeight + 2
    THEN << BtcTx("b2", << BtcOut(<< >>, 0), BtcOut(<< "bc1q3" >>, 500000) >>) >>
  ELSE << >>

(* ------------------------------- state --------------------------------- *)
VARIABLES
  providers,     \* this.providers: the (chain, network) pairs whose adapter initialized
  tip,           \* chain side: current height of each (chain, network)
  settings,      \* system_settings: checkpoint key -> stored text, or NoSetting
  deposits,      \* deposits table: sequence of rows, id = position
  balances,      \* wallet_balances: <<userId, baseSymbol>> -> spot balance, or NoBalance
  tronTicks,     \* in-flight checkTronBlocks callbacks
  ticksStarted,  \* timer firings so far
  faults,        \* failures injected so far
  credits,       \* history: number of balance increments applied per deposit id
  creditCalls,   \* history: number of calls of updateWalletBalance per deposit id
  processed,     \* history: heights whose block was fetched and processed, per pair
  blockQueues,   \* this.blockQueues: queue key -> [isProcessing, queue]
  evmProc,       \* executions of processQueueForChain that are inside the drain loop
  xrpTicks,      \* in-flight checkXrpBlocks callbacks
  btcTicks,      \* in-flight checkBitcoinBlocks callbacks
  btcWallets,    \* rows of the wallet directory for Bitcoin (read only)
  stopRequested, \* host side: the application was asked to shut down
  testResult     \* caller side: the last call of testConnection and its outcome

vars == << providers, tip, settings, deposits, balances, tronTicks, ticksStarted,
           faults, credits, creditCalls, processed, blockQueues, evmProc, xrpTicks,
           btcTicks, btcWallets, stopRequested, testResult >>

\* what the callbacks of one kind of monitor leave alone
nonTronVars == << blockQueues, evmProc, xrpTicks, btcTicks, btcWallets, stopRequested,
                  testResult >>
nonEvmVars == << tronTicks, ticksStarted, xrpTicks, btcTicks, btcWallets, stopRequested,
                 testResult >>
nonXrpVars == << tronTicks, blockQueues, evmProc, btcTicks, btcWallets, stopRequested,
                 testResult >>
nonBtcVars == << tronTicks, blockQueues, evmProc, xrpTicks, balances, btcWallets,
                 stopRequested, testResult >>

Pairs == {"eth", "bsc", "btc", "trx", "xrp"} \X Networks

\* a provider map that answers for every pair
MonitoredAlways(c, n) == TRUE

\* `this.providers.get(key)` is defined: the adapter of the pair initialized
Monitored(c, n) == << c, n >> \in providers

\* the pull-mode pairs whose adapters the startup scenario follows
StartupPairs == {<< "trx", "testnet" >>, << "xrp", "testnet" >>, << "btc", "testnet" >>}
MaxTip == ResumeHeight + MaxNewBlocks
TickIds == 1 .. MaxTicks

(* ------------------------- decimal text of a number -------------------- *)
RECURSIVE toString(_)
\* Number.prototype.toString for a non-negative integer: its decimal digits
toString(n) == IF n < 10 THEN << n >> ELSE Append(toString(n \div 10), n % 10)

RECURSIVE parseInt(_)
\* parseInt of a digit text
parseInt(s) ==
  IF Len(s) = 0 THEN 0
  ELSE 10 * parseInt(SubSeq(s, 1, Len(s) - 1)) + s[Len(s)]

Min(a, b) == IF a <= b THEN a ELSE b

(* ----------------------------- checkpoint ------------------------------ *)
\* the key both checkpoint functions build
CheckpointKey(chain, network) ==
  LET chainKey == IF chain = "bitcoin" THEN "btc" ELSE chain
  IN << "last_processed_block", chainKey, network >>

getLastProcessedBlock(st, chain, network) ==
  LET setting == st[CheckpointKey(chain, network)]
  IN IF setting # NoSetting THEN parseInt(setting) ELSE 0

\* the INSERT ... ON CONFLICT (key) DO UPDATE of saveLastProcessedBlock
UpsertCheckpoint(st, chain, network, blockNumber) ==
  [st EXCEPT ![CheckpointKey(chain, network)] = toString(blockNumber)]

\* a read-back that accepts whatever it finds
VerifyCheckpointAlways(st, chain, network, blockNumber) == TRUE

\* the read-back of saveLastProcessedBlock: TRUE when it returns, FALSE when it throws
VerifyCheckpoint(st, chain, network, blockNumber) ==
  LET saved == st[CheckpointKey(chain, network)]
  IN saved # NoSetting /\ parseInt(saved) = blockNumber

(* ------------------------------ deposits ------------------------------- *)
\* the deposits table without its unique index
UniqueViolationNever(deps, row) == FALSE

\* unique index (txHash, walletId, tokenId) of the deposits table
UniqueViolation(deps, row) ==
  \E j \in 1 .. Len(deps) :
    /\ deps[j].txHash = row.txHash
    /\ deps[j].walletId = row.walletId
    /\ deps[j].tokenId = row.tokenId

\* depositRepository.save of a new row: ok = FALSE when the insert throws
SaveDeposit(deps, row) ==
  IF UniqueViolation(deps, row)
    THEN [ok |-> FALSE, deps |-> deps]
    ELSE [ok |-> TRUE, deps |-> Append(deps, [row EXCEPT !.id = Len(deps) + 1])]

NewDeposit(wallet, token, txHash, amount, chain, network, blockNumber) ==
  [id |-> 0, userId |-> wallet.userId, walletId |-> wallet.id, tokenId |-> token.id,
   txHash |-> txHash, amount |-> amount, blockchain |-> chain, network |-> network,
   networkVersion |-> token.networkVersion, blockNumber |-> blockNumber,
   status |-> "pending", confirmations |-> 0]

\* tokenRepository.findOne: one of the matching rows, NoToken when none
FindToken(matching) ==
  IF matching # {} THEN CHOOSE t \in matching : TRUE ELSE NoToken

getTronToken(contractType, assetName) ==
  IF contractType = "TransferContract"
    THEN FindToken({t \in Tokens : t.blockchain = "trx" /\ t.networkVersion = "NATIVE"
                              /\ t.isActive})
  ELSE IF contractType = "TransferAssetContract" /\ assetName # Null
    THEN FindToken({t \in Tokens : t.blockchain = "trx" /\ t.networkVersion = "TRC20"
                              /\ t.symbol = assetName /\ t.isActive})
  ELSE NoToken

RECURSIVE Pow10(_)
Pow10(n) == IF n = 0 THEN 1 ELSE 10 * Pow10(n - 1)

\* parameter.amount / Math.pow(10, token.decimals); amounts and balances are
\* kept as a count of millionths
TronAmount(raw, decimals) ==
  IF decimals <= 6 THEN raw * Pow10(6 - decimals) ELSE raw \div Pow10(decimals - 6)

\* the positions of the transactions processTronBlock saves a deposit for
TronSaves(network, txs) ==
  {i \in 1 .. Len(txs) :
     /\ txs[i].type \in {"TransferContract", "TransferAssetContract"}
     /\ \E w \in Wallets : /\ w.blockchain = "trx" /\ w.network = network
                           /\ w.address = fromHex(txs[i].to_address)
     /\ getTronToken(txs[i].type, txs[i].asset_name) # NoToken}

RECURSIVE processTronTxs(_, _, _, _, _, _)
\* the transaction loop of processTronBlock; a throwing save leaves the loop:
\* the save of a row the unique index rejects, and the saves at the positions
\* bad, which the database fails
processTronTxs(deps, network, txs, i, blockNumber, bad) ==
  IF i > Len(txs) THEN deps
  ELSE
    LET tx == txs[i]
        toAddress == fromHex(tx.to_address)
        mine == {w \in Wallets : w.blockchain = "trx" /\ w.network = network
                                  /\ w.address = toAddress}
    IN IF tx.type \notin {"TransferContract", "TransferAssetContract"} \/ mine = {}
         THEN processTronTxs(deps, network, txs, i + 1, blockNumber, bad)
       ELSE
         LET wallet == CHOOSE w \in mine : TRUE
             token == getTronToken(tx.type, tx.asset_name)
         IN IF token = NoToken
              THEN processTronTxs(deps, network, txs, i + 1, blockNumber, bad)
            ELSE IF i \in bad THEN deps
            ELSE
              LET r == SaveDeposit(deps,
                         NewDeposit(wallet, token, tx.txID,
                                    TronAmount(tx.amount, token.decimals),
                                    "trx", network, blockNumber))
              IN IF r.ok
                   THEN processTronTxs(r.deps, network, txs, i + 1, blockNumber, bad)
                   ELSE r.deps

processTronBlock(deps, network, txs, blockNumber, bad) ==
  processTronTxs(deps, network, txs, 1, blockNumber, bad)

\* a find that leaves out the blockchain and network conditions
PendingDepositsAnyPair(deps, chain, network) ==
  SelectSeq(deps, LAMBDA d : d.status \in {"pending", "confirming"}
                             /\ d.blockNumber # NoBlock)

\* depositRepository.find of the confirmation passes
PendingDeposits(deps, chain, network) ==
  SelectSeq(deps, LAMBDA d : d.blockchain = chain /\ d.network = network
                             /\ d.status \in {"pending", "confirming"}
                             /\ d.blockNumber # NoBlock)

\* the status rule with > in the place of >=
NewStatusStrict(confirmations, required) ==
  IF confirmations > required THEN "confirmed" ELSE "confirming"

\* the status a confirmation pass writes
NewStatus(confirmations, required) ==
  IF confirmations >= required THEN "confirmed" ELSE "confirming"

\* an update that writes blockNumber along with confirmations and status
UpdateDepositWithBlock(deps, id, confirmations, status) ==
  [deps EXCEPT ![id].confirmations = confirmations, ![id].status = status,
               ![id].blockNumber = confirmations]

\* depositRepository.update(deposit.id, {confirmations, status})
UpdateDeposit(deps, id, confirmations, status) ==
  [deps EXCEPT ![id].confirmations = confirmations, ![id].status = status]

\* the guard of the call to updateWalletBalance
ShouldCredit(confirmations, required, loadedStatus) ==
  confirmations >= required /\ loadedStatus # "confirmed"

(* --------------------------- ledger applier ---------------------------- *)
TokenById(id) == CHOOSE t \in Tokens : t.id = id

BalanceKey(deposit) ==
  LET token == TokenById(deposit.tokenId)
  IN << deposit.userId,
        IF token.baseSymbol # Null THEN token.baseSymbol ELSE token.symbol >>

\* manager.findOne(WalletBalance, ...): the balance read, NoBalance without a row
BalanceRead(bal, deposit) == bal[BalanceKey(deposit)]

\* balance.balance = new Decimal(balance.balance).plus(deposit.amount) and
\* manager.save(balance), read being what findOne returned
BalanceWrite(bal, deposit, read) ==
  [bal EXCEPT ![BalanceKey(deposit)] = read + deposit.amount]

\* updateWalletBalance when nothing else writes between its read and its save:
\* ok = FALSE when 'Wallet balance not found' is thrown
updateWalletBalance(bal, deposit) ==
  LET read == BalanceRead(bal, deposit)
  IN IF read = NoBalance
       THEN [ok |-> FALSE, bal |-> bal]
       ELSE [ok |-> TRUE, bal |-> BalanceWrite(bal, deposit, read)]

(* ------------------------------ Tron monitor --------------------------- *)
FetchResults == {"ok", "null", "err", "err403"}

RECURSIVE tronAttempt(_, _, _)
tronAttempt(results, i, maxRetries) ==
  IF i >= maxRetries THEN [kind |-> "null", attempts |-> i]
  ELSE IF results[i + 1] \in {"ok", "null"}
    THEN [kind |-> results[i + 1], attempts |-> i + 1]
  ELSE IF i = maxRetries - 1
    THEN [kind |-> results[i + 1], attempts |-> i + 1]
  ELSE tronAttempt(results, i + 1, maxRetries)

\* getTronBlockWithRetry: results[i] is what the i-th call of getBlock does;
\* kind "ok"/"null" is the value returned, "err"/"err403" the error thrown
getTronBlockWithRetry(results, maxRetries) == tronAttempt(results, 0, maxRetries)

\* no height of the callback was left without its block so far
NoSkip == [kind |-> "none", height |-> 0, attempts |-> 0]

\* skip: the height this callback last left without a block, what
\* getTronBlockWithRetry did there ("null" returned, "err" / "err403" thrown)
\* and after how many calls of getBlock
IdleTick ==
  [pc |-> "idle", cur |-> 0, height |-> 0, endBlock |-> 0, loaded |-> << >>, i |-> 0,
   skip |-> NoSkip, read |-> 0]

\* the test of `for (let height = startBlock; height <= endBlock; height++)`
TronNextIter(t, h) ==
  IF h <= t.endBlock
    THEN [t EXCEPT !.pc = "fetch", !.height = h, !.loaded = << >>, !.i = 0]
    ELSE IdleTick

\* the test of `for (const deposit of deposits)` in updateTronConfirmations
TronConfNext(t, i) ==
  IF i <= Len(t.loaded)
    THEN [t EXCEPT !.pc = "confUpdate", !.i = i]
    ELSE [t EXCEPT !.pc = "save", !.loaded = << >>, !.i = 0]

Zeros(n) == [j \in 1 .. n |-> 0]

\* setInterval callback of monitorTron starts; tronWeb.trx.getCurrentBlock()
TronTimerFires(n, k) ==
  /\ Monitored("trx", n)
  /\ ticksStarted < MaxTickStarts
  /\ tronTicks[n][k].pc = "idle"
  /\ \A j \in 1 .. (k - 1) : tronTicks[n][j].pc # "idle"
  /\ tronTicks' = [tronTicks EXCEPT ![n][k] =
                     [IdleTick EXCEPT !.pc = "readLast", !.cur = tip[<< "trx", n >>]]]
  /\ ticksStarted' = ticksStarted + 1
  /\ UNCHANGED << providers, tip, settings, deposits, balances, faults, credits, creditCalls,
                  processed >>
  /\ UNCHANGED nonTronVars

\* checkTronBlocks: getLastProcessedBlock, startBlock, endBlock, first loop test
TronReadLast(n, k) ==
  LET t == tronTicks[n][k]
      lastProcessedBlock == getLastProcessedBlock(settings, "trx", n)
      startBlock == lastProcessedBlock + 1
      endBlock == Min(startBlock + TronBatchSize, t.cur)
  IN /\ t.pc = "readLast"
     /\ tronTicks' = [tronTicks EXCEPT ![n][k] =
                        TronNextIter([t EXCEPT !.endBlock = endBlock], startBlock)]
     /\ UNCHANGED << providers, tip, settings, deposits, balances, ticksStarted,
                     faults, credits, creditCalls, processed >>
     /\ UNCHANGED nonTronVars

\* checkTronBlocks: the block delay and getTronBlockWithRetry(tronWeb, height, 3)
TronFetch(n, k) ==
  LET t == tronTicks[n][k]
  IN /\ t.pc = "fetch"
     /\ \E results \in [1 .. TronMaxRetries -> FetchResults] :
          LET o == getTronBlockWithRetry(results, TronMaxRetries)
              clean == o.kind = "ok" /\ o.attempts = 1
          IN /\ \A j \in (o.attempts + 1) .. TronMaxRetries : results[j] = "ok"
             /\ clean \/ faults < MaxFaults
             /\ faults' = IF clean THEN faults ELSE faults + 1
             /\ tronTicks' = [tronTicks EXCEPT ![n][k] =
                                IF o.kind = "ok"
                                  THEN [t EXCEPT !.pc = "process"]
                                  ELSE TronNextIter(
                                         [t EXCEPT !.skip = [kind |-> o.kind,
                                                             height |-> t.height,
                                                             attempts |-> o.attempts]],
                                         t.height + 1)]
     /\ UNCHANGED << providers, tip, settings, deposits, balances, ticksStarted,
                     credits, creditCalls, processed >>
     /\ UNCHANGED nonTronVars

\* checkTronBlocks: await this.processTronBlock(network, block)
TronProcess(n, k) ==
  LET t == tronTicks[n][k]
      txs == TronChain(n, t.height)
  IN /\ t.pc = "process"
     /\ \E bad \in SUBSET TronSaves(n, txs) :
          /\ faults + Cardinality(bad) <= MaxFaults
          /\ faults' = faults + Cardinality(bad)
          /\ deposits' = processTronBlock(deposits, n, txs, t.height, bad)
     /\ credits' = credits \o Zeros(Len(deposits') - Len(deposits))
     /\ creditCalls' = creditCalls \o Zeros(Len(deposits') - Len(deposits))
     /\ processed' = [processed EXCEPT ![<< "trx", n >>] = @ \cup {t.height}]
     /\ tronTicks' = [tronTicks EXCEPT ![n][k] = [t EXCEPT !.pc = "confLoad"]]
     /\ UNCHANGED << providers, tip, settings, balances, ticksStarted >>
     /\ UNCHANGED nonTronVars

\* updateTronConfirmations: the find of the pending and confirming deposits
TronConfLoad(n, k) ==
  LET t == tronTicks[n][k]
  IN /\ t.pc = "confLoad"
     /\ tronTicks' = [tronTicks EXCEPT ![n][k] =
                        TronConfNext([t EXCEPT !.loaded =
                                        PendingDeposits(deposits, "trx", n)], 1)]
     /\ UNCHANGED << providers, tip, settings, deposits, balances, ticksStarted,
                     faults, credits, creditCalls, processed >>
     /\ UNCHANGED nonTronVars

\* updateTronConfirmations: the update of one loaded deposit
TronConfUpdate(n, k) ==
  LET t == tronTicks[n][k]
      deposit == t.loaded[t.i]
      confirmations == t.height - deposit.blockNumber
      requiredConfirmations == CONFIRMATION_BLOCKS.trx[n]
  IN /\ t.pc = "confUpdate"
     /\ deposits' = UpdateDeposit(deposits, deposit.id, confirmations,
                                  NewStatus(confirmations, requiredConfirmations))
     /\ tronTicks' = [tronTicks EXCEPT ![n][k] =
                        IF ShouldCredit(confirmations, requiredConfirmations,
                                        deposit.status)
                          THEN [t EXCEPT !.pc = "credit"]
                          ELSE TronConfNext(t, t.i + 1)]
     /\ UNCHANGED << providers, tip, settings, balances, ticksStarted, faults,
                     credits, creditCalls, processed >>
     /\ UNCHANGED nonTronVars

\* updateWalletBalance, called from updateTronConfirmations: the transaction
\* starts and finds the token and the balance row; the throw for a missing
\* row leaves the pass through its catch
TronCredit(n, k) ==
  LET t == tronTicks[n][k]
      deposit == t.loaded[t.i]
      read == BalanceRead(balances, deposit)
  IN /\ t.pc = "credit"
     /\ creditCalls' = [creditCalls EXCEPT ![deposit.id] = @ + 1]
     /\ tronTicks' = [tronTicks EXCEPT ![n][k] =
                        IF read # NoBalance
                          THEN [t EXCEPT !.pc = "creditWrite", !.read = read]
                          ELSE [t EXCEPT !.pc = "save", !.loaded = << >>, !.i = 0]]
     /\ UNCHANGED << providers, tip, settings, deposits, balances, ticksStarted,
                     faults, credits, processed >>
     /\ UNCHANGED nonTronVars

\* updateWalletBalance: await manager.save(balance) and the commit
TronCreditWrite(n, k) ==
  LET t == tronTicks[n][k]
      deposit == t.loaded[t.i]
  IN /\ t.pc = "creditWrite"
     /\ balances' = BalanceWrite(balances, deposit, t.read)
     /\ credits' = [credits EXCEPT ![deposit.id] = @ + 1]
     /\ tronTicks' = [tronTicks EXCEPT ![n][k] = TronConfNext([t EXCEPT !.read = 0],
                                                              t.i + 1)]
     /\ UNCHANGED << providers, tip, settings, deposits, ticksStarted, faults,
                     creditCalls, processed >>
     /\ UNCHANGED nonTronVars

\* checkTronBlocks: await this.saveLastProcessedBlock('trx', network, height);
\* a verification failure is caught by the loop body like any other error
TronSave(n, k) ==
  LET t == tronTicks[n][k]
  IN /\ t.pc = "save"
     /\ settings' = UpsertCheckpoint(settings, "trx", n, t.height)
     /\ tronTicks' = [tronTicks EXCEPT ![n][k] = TronNextIter(t, t.height + 1)]
     /\ UNCHANGED << providers, tip, deposits, balances, ticksStarted, faults,
                     credits, creditCalls, processed >>
     /\ UNCHANGED nonTronVars

\* the upsert of saveLastProcessedBlock throws: caught by the loop body
TronSaveFails(n, k) ==
  LET t == tronTicks[n][k]
  IN /\ t.pc = "save"
     /\ faults < MaxFaults
     /\ faults' = faults + 1
     /\ tronTicks' = [tronTicks EXCEPT ![n][k] = TronNextIter(t, t.height + 1)]
     /\ UNCHANGED << providers, tip, settings, deposits, balances, ticksStarted,
                     credits, creditCalls, processed >>
     /\ UNCHANGED nonTronVars

(* ------------------------------ EVM monitors --------------------------- *)
EvmKeys == {"eth", "bsc"} \X Networks
IdleProc == [pc |-> "idle", blockNumber |-> 0]

\* utils.formatUnits(value, decimals), as a count of millionths
formatUnits(value, decimals) ==
  LET shift == value.e - decimals + 6
  IN IF shift >= 0 THEN value.m * Pow10(shift) ELSE value.m \div Pow10(0 - shift)

getTokenForTransaction(chain, tx) ==
  IF tx.to = Null THEN NoToken
  ELSE IF tx.data = Null \/ tx.data = "0x"
    THEN FindToken({t \in Tokens : t.blockchain = chain /\ t.networkVersion = "NATIVE"
                              /\ t.isActive})
  ELSE FindToken({t \in Tokens : t.blockchain = chain
                            /\ t.contractAddress = toLowerCase(tx.to) /\ t.isActive})

NoAmount == 0 - 1

\* getTransactionAmount: NoAmount is the null it returns
getTransactionAmount(tx, token) ==
  IF token.networkVersion = "NATIVE" THEN formatUnits(tx.value, token.decimals)
  ELSE
    LET found == {j \in 1 .. Len(tx.logs) : tx.logs[j].name = "Transfer"}
    IN IF found = {} THEN NoAmount
       ELSE LET first == CHOOSE j \in found : \A j2 \in found : j <= j2
            IN formatUnits(tx.logs[first].value, token.decimals)

\* processEvmTransaction: the deposits table after it
processEvmTransaction(deps, chain, network, tx) ==
  LET wallets == {w \in Wallets : w.blockchain = chain /\ w.network = network}
      toAddress == IF tx.to = Null THEN Null ELSE toLowerCase(tx.to)
      mine == {w \in wallets : toLowerCase(w.address) = toAddress}
  IN IF toAddress = Null \/ mine = {} THEN deps
     ELSE
       LET wallet == CHOOSE w \in mine : TRUE
           token == getTokenForTransaction(chain, tx)
       IN IF token = NoToken THEN deps
          ELSE
            LET amount == getTransactionAmount(tx, token)
            IN IF amount = NoAmount THEN deps
               ELSE SaveDeposit(deps,
                      NewDeposit(wallet, token, tx.hash, amount, chain, network,
                                 tx.blockNumber)).deps

RECURSIVE processEvmTxs(_, _, _, _, _, _)
\* the transaction loop of processEvmBlock; bad holds the positions whose
\* getEvmTransactionWithRetry throws
processEvmTxs(deps, chain, network, txs, i, bad) ==
  IF i > Len(txs) THEN deps
  ELSE IF i \in bad THEN processEvmTxs(deps, chain, network, txs, i + 1, bad)
  ELSE processEvmTxs(processEvmTransaction(deps, chain, network, txs[i]),
                     chain, network, txs, i + 1, bad)

\* the guard without its test of the flag
AlreadyProcessingNever(q) == FALSE

\* a guard that returns whatever the flag says
AlreadyProcessingAlways(q) == TRUE

\* `if (queue.isProcessing) return;`
AlreadyProcessing(q) == q.isProcessing

\* the drain loop without the finally block that clears the flag
EvmLoopExitKeepsFlag(q) == q

\* the finally block of processQueueForChain: queue.isProcessing = false
EvmLoopExit(q) == [q EXCEPT !.isProcessing = FALSE]

\* a loop that returns at its while test, without the finally block
EvmDrainReturns(q) == [q |-> q, proc |-> [pc |-> "idle", blockNumber |-> 0]]

RECURSIVE processQueueForChain(_)
RECURSIVE EvmDrain(_)
\* the while test of processQueueForChain with isProcessing set, and, when the
\* queue is empty, its finally block
EvmDrain(q) ==
  IF Len(q.queue) > 0
    THEN [q |-> [q EXCEPT !.queue = Tail(@)],
          proc |-> [pc |-> "getBlock", blockNumber |-> Head(q.queue)]]
    ELSE LET q1 == EvmLoopExit(q)
         IN IF Len(q1.queue) > 0 THEN processQueueForChain(q1)
            ELSE [q |-> q1, proc |-> IdleProc]

\* processQueueForChain up to its first await: the queue record after it, and
\* the position of the execution (idle when it has returned)
processQueueForChain(q) ==
  IF AlreadyProcessing(q) THEN [q |-> q, proc |-> IdleProc]
  ELSE EvmDrain([q EXCEPT !.isProcessing = TRUE])

FreeProc(key) ==
  CHOOSE k \in TickIds :
    /\ evmProc[key][k].pc = "idle"
    /\ \A j \in 1 .. (k - 1) : evmProc[key][j].pc # "idle"

\* provider.on('block'): a new block of the chain is announced
EvmBlockEvent(c, n) ==
  LET key == << c, n >>
      pushed == [blockQueues[key] EXCEPT !.queue = Append(@, tip[key] + 1)]
      r == processQueueForChain(pushed)
  IN /\ Monitored(c, n)
     /\ tip[key] < MaxTip
     /\ tip' = [tip EXCEPT ![key] = @ + 1]
     /\ r.proc.pc # "idle" => \E k \in TickIds : evmProc[key][k].pc = "idle"
     /\ blockQueues' = [blockQueues EXCEPT ![key] = r.q]
     /\ evmProc' = IF r.proc.pc = "idle" THEN evmProc
                   ELSE [evmProc EXCEPT ![key][FreeProc(key)] = r.proc]
     /\ UNCHANGED << providers, settings, deposits, balances, faults, credits, creditCalls,
                     processed >>
     /\ UNCHANGED nonEvmVars

\* the execution k goes back to the while test (after the delay, or from the
\* catch of the loop body)
EvmBackToLoop(key, k) ==
  LET r == EvmDrain(blockQueues[key])
  IN /\ blockQueues' = [blockQueues EXCEPT ![key] = r.q]
     /\ evmProc' = [evmProc EXCEPT ![key][k] = r.proc]

\* processEvmBlock: await provider.getBlock(blockNumber)
EvmGetBlock(c, n, k) ==
  LET key == << c, n >>
      t == evmProc[key][k]
  IN /\ t.pc = "getBlock"
     /\ \E result \in {"ok", "null", "err"} :
          /\ result = "ok" \/ faults < MaxFaults
          /\ faults' = IF result = "ok" THEN faults ELSE faults + 1
          /\ CASE result = "ok" ->
                    /\ evmProc' = [evmProc EXCEPT ![key][k].pc = "txs"]
                    /\ UNCHANGED blockQueues
               [] result = "null" ->
                    /\ evmProc' = [evmProc EXCEPT ![key][k].pc = "delay"]
                    /\ UNCHANGED blockQueues
               [] OTHER -> EvmBackToLoop(key, k)
     /\ UNCHANGED << providers, tip, settings, deposits, balances, credits, creditCalls,
                     processed >>
     /\ UNCHANGED nonEvmVars

\* processEvmBlock: the loop over block.transactions
EvmProcessTxs(c, n, k) ==
  LET key == << c, n >>
      t == evmProc[key][k]
      txs == EvmChain(c, n, t.blockNumber)
  IN /\ t.pc = "txs"
     /\ \E bad \in SUBSET (1 .. Len(txs)) :
          /\ faults + Cardinality(bad) <= MaxFaults
          /\ faults' = faults + Cardinality(bad)
          /\ deposits' = processEvmTxs(deposits, c, n, txs, 1, bad)
     /\ credits' = credits \o Zeros(Len(deposits') - Len(deposits))
     /\ creditCalls' = creditCalls \o Zeros(Len(deposits') - Len(deposits))
     /\ processed' = [processed EXCEPT ![key] = @ \cup {t.blockNumber}]
     /\ evmProc' = [evmProc EXCEPT ![key][k].pc = "save"]
     /\ UNCHANGED << providers, tip, settings, balances, blockQueues >>
     /\ UNCHANGED nonEvmVars

\* saveLastProcessedBlock: the upsert
EvmSave(c, n, k) ==
  LET key == << c, n >>
      t == evmProc[key][k]
  IN /\ t.pc = "save"
     /\ settings' = UpsertCheckpoint(settings, c, n, t.blockNumber)
     /\ evmProc' = [evmProc EXCEPT ![key][k].pc = "verify"]
     /\ UNCHANGED << providers, tip, deposits, balances, faults, credits, creditCalls, processed,
                     blockQueues >>
     /\ UNCHANGED nonEvmVars

\* saveLastProcessedBlock: the upsert throws; processEvmBlock rethrows and the
\* loop body of processQueueForChain catches
EvmSaveFails(c, n, k) ==
  LET key == << c, n >>
      t == evmProc[key][k]
  IN /\ t.pc = "save"
     /\ faults < MaxFaults
     /\ faults' = faults + 1
     /\ EvmBackToLoop(key, k)
     /\ UNCHANGED << providers, tip, settings, deposits, balances, credits, creditCalls,
                     processed >>
     /\ UNCHANGED nonEvmVars

\* saveLastProcessedBlock: the read-back; processEvmBlock returns when it
\* matches, the error reaches the catch of the loop body when it does not
EvmVerify(c, n, k) ==
  LET key == << c, n >>
      t == evmProc[key][k]
  IN /\ t.pc = "verify"
     /\ IF VerifyCheckpoint(settings, c, n, t.blockNumber)
          THEN /\ evmProc' = [evmProc EXCEPT ![key][k].pc = "delay"]
               /\ UNCHANGED blockQueues
          ELSE EvmBackToLoop(key, k)
     /\ UNCHANGED << providers, tip, settings, deposits, balances, faults, credits, creditCalls,
                     processed >>
     /\ UNCHANGED nonEvmVars

\* processQueueForChain: the block delay is over
EvmDelayDone(c, n, k) ==
  LET key == << c, n >>
      t == evmProc[key][k]
  IN /\ t.pc = "delay"
     /\ EvmBackToLoop(key, k)
     /\ UNCHANGED << providers, tip, settings, deposits, balances, faults, credits, creditCalls,
                     processed >>
     /\ UNCHANGED nonEvmVars

(* ------------------------------- XRP monitor --------------------------- *)
IdleXrp == [pc |-> "idle", cur |-> 0, ledgerIndex |-> 0]

\* getXrpTokenId: the rows its findOne can answer with, NoToken when it throws
\* 'XRP token not found in database'
getXrpTokenId ==
  LET matching == {t \in Tokens : t.symbol = "XRP" /\ t.networkVersion = "NATIVE"}
  IN IF matching # {} THEN matching ELSE {NoToken}

\* amount: tx.Amount is stored as it is, a count of drops read as an amount
XrpAmount(amount) == amount * Pow10(6)

\* processXrpTransaction, with token what getXrpTokenId answers: the deposits
\* table after it
processXrpTransaction(deps, chain, network, tx, token) ==
  LET mine == {w \in Wallets : w.blockchain = chain /\ w.network = network
                                /\ w.address = tx.Destination}
  IN IF tx.TransactionType # "Payment" \/ mine = {} THEN deps
     ELSE
       LET wallet == CHOOSE w \in mine : TRUE
       IN IF token = NoToken THEN deps
          ELSE SaveDeposit(deps,
                 [NewDeposit(wallet, token, tx.hash, XrpAmount(tx.Amount), chain,
                             network, tx.ledger_index)
                    EXCEPT !.networkVersion = "NATIVE"]).deps

RECURSIVE processXrpTxs(_, _, _, _, _)
\* the transaction loop of processXrpLedger; tokens[i] is what getXrpTokenId
\* answers for the i-th transaction
processXrpTxs(deps, network, txs, i, tokens) ==
  IF i > Len(txs) THEN deps
  ELSE processXrpTxs(processXrpTransaction(deps, "xrp", network, txs[i], tokens[i]),
                     network, txs, i + 1, tokens)

\* the test of `for (let ledgerIndex = ...; ledgerIndex <= currentLedger; ...)`
XrpNextIter(t, h) ==
  IF h <= t.cur THEN [t EXCEPT !.pc = "ledger", !.ledgerIndex = h] ELSE IdleXrp

\* setInterval callback of monitorXrp starts; the server_info request
XrpTimerFires(n, k) ==
  /\ Monitored("xrp", n)
  /\ ticksStarted < MaxTickStarts
  /\ xrpTicks[n][k].pc = "idle"
  /\ \A j \in 1 .. (k - 1) : xrpTicks[n][j].pc # "idle"
  /\ xrpTicks' = [xrpTicks EXCEPT ![n][k] =
                    [IdleXrp EXCEPT !.pc = "readLast", !.cur = tip[<< "xrp", n >>]]]
  /\ ticksStarted' = ticksStarted + 1
  /\ UNCHANGED << providers, tip, settings, deposits, balances, faults, credits, creditCalls,
                  processed >>
  /\ UNCHANGED nonXrpVars

\* checkXrpBlocks: getLastProcessedBlock and the first loop test
XrpReadLast(n, k) ==
  LET t == xrpTicks[n][k]
      lastProcessedBlock == getLastProcessedBlock(settings, "xrp", n)
  IN /\ t.pc = "readLast"
     /\ xrpTicks' = [xrpTicks EXCEPT ![n][k] = XrpNextIter(t, lastProcessedBlock + 1)]
     /\ UNCHANGED << providers, tip, settings, deposits, balances, ticksStarted,
                     faults, credits, creditCalls, processed >>
     /\ UNCHANGED nonXrpVars

\* processXrpLedger when the ledger request answers
XrpLedger(n, k) ==
  LET t == xrpTicks[n][k]
  IN /\ t.pc = "ledger"
     /\ \E tokens \in [1 .. Len(XrpChain(n, t.ledgerIndex)) -> getXrpTokenId] :
          deposits' = processXrpTxs(deposits, n, XrpChain(n, t.ledgerIndex), 1, tokens)
     /\ credits' = credits \o Zeros(Len(deposits') - Len(deposits))
     /\ creditCalls' = creditCalls \o Zeros(Len(deposits') - Len(deposits))
     /\ processed' = [processed EXCEPT ![<< "xrp", n >>] = @ \cup {t.ledgerIndex}]
     /\ xrpTicks' = [xrpTicks EXCEPT ![n][k].pc = "save"]
     /\ UNCHANGED << providers, tip, settings, balances, ticksStarted, faults >>
     /\ UNCHANGED nonXrpVars

\* processXrpLedger when the ledger request throws: its catch logs and returns
XrpLedgerFails(n, k) ==
  LET t == xrpTicks[n][k]
  IN /\ t.pc = "ledger"
     /\ faults < MaxFaults
     /\ faults' = faults + 1
     /\ xrpTicks' = [xrpTicks EXCEPT ![n][k].pc = "save"]
     /\ UNCHANGED << providers, tip, settings, deposits, balances, ticksStarted,
                     credits, creditCalls, processed >>
     /\ UNCHANGED nonXrpVars

\* saveLastProcessedBlock: the upsert
XrpSave(n, k) ==
  LET t == xrpTicks[n][k]
  IN /\ t.pc = "save"
     /\ settings' = UpsertCheckpoint(settings, "xrp", n, t.ledgerIndex)
     /\ xrpTicks' = [xrpTicks EXCEPT ![n][k].pc = "verify"]
     /\ UNCHANGED << providers, tip, deposits, balances, ticksStarted, faults,
                     credits, creditCalls, processed >>
     /\ UNCHANGED nonXrpVars

\* saveLastProcessedBlock: the upsert throws; the catch of checkXrpBlocks ends
\* the callback
XrpSaveFails(n, k) ==
  LET t == xrpTicks[n][k]
  IN /\ t.pc = "save"
     /\ faults < MaxFaults
     /\ faults' = faults + 1
     /\ xrpTicks' = [xrpTicks EXCEPT ![n][k] = IdleXrp]
     /\ UNCHANGED << providers, tip, settings, deposits, balances, ticksStarted,
                     credits, creditCalls, processed >>
     /\ UNCHANGED nonXrpVars

\* saveLastProcessedBlock: the read-back; a mismatch throws to the catch of
\* checkXrpBlocks
XrpVerify(n, k) ==
  LET t == xrpTicks[n][k]
  IN /\ t.pc = "verify"
     /\ xrpTicks' = [xrpTicks EXCEPT ![n][k] =
                       IF VerifyCheckpoint(settings, "xrp", n, t.ledgerIndex)
                         THEN XrpNextIter(t, t.ledgerIndex + 1)
                         ELSE IdleXrp]
     /\ UNCHANGED << providers, tip, settings, deposits, balances, ticksStarted,
                     faults, credits, creditCalls, processed >>
     /\ UNCHANGED nonXrpVars

(* ----------------------------- Bitcoin monitor ------------------------- *)
\* `const chain = 'bitcoin'` of checkBitcoinBlocks
BitcoinChain == "bitcoin"

IdleBtc == [pc |-> "idle", chain |-> Null, cur |-> 0, blockNum |-> 0]

\* getBitcoinTokenId: NoToken when it throws 'Bitcoin token not found in database'
getBitcoinTokenId ==
  FindToken({t \in Tokens : t.symbol = "BTC" /\ t.networkVersion = "NATIVE"})

RECURSIVE BtcAddressRows(_, _, _, _, _, _)
\* the rows processBitcoinTransaction saves for one output, from its a-th
\* address on: one for each address that is the address of a wallet found
BtcAddressRows(wallets, chain, network, tx, output, a) ==
  IF a > Len(output.addresses) THEN << >>
  ELSE
    LET mine == {w \in wallets : w.address = output.addresses[a]}
        rest == BtcAddressRows(wallets, chain, network, tx, output, a + 1)
    IN IF mine = {} THEN rest
       ELSE << [NewDeposit(CHOOSE w \in mine : TRUE, getBitcoinTokenId, tx.txid,
                           output.value, chain, network, tx.blockHeight)
                  EXCEPT !.networkVersion = "NATIVE"] >> \o rest

RECURSIVE BtcOutputRows(_, _, _, _, _)
\* `for (const output of tx.vout)`, from the j-th output on
BtcOutputRows(wallets, chain, network, tx, j) ==
  IF j > Len(tx.vout) THEN << >>
  ELSE BtcAddressRows(wallets, chain, network, tx, tx.vout[j], 1)
         \o BtcOutputRows(wallets, chain, network, tx, j + 1)

RECURSIVE BtcBlockRows(_, _, _, _)
\* `for (const tx of block.tx)` of processBitcoinBlock, from the i-th
\* transaction on: the rows to save, in the order of the saves
BtcBlockRows(chain, network, txs, i) ==
  IF i > Len(txs) THEN << >>
  ELSE BtcOutputRows({w \in btcWallets : w.blockchain = chain /\ w.network = network},
                     chain, network, txs[i], 1)
         \o BtcBlockRows(chain, network, txs, i + 1)

RECURSIVE BtcSaveRows(_, _, _, _)
\* the saves one after the other, the bad-th one rejected by the database
\* (0: none); ok = FALSE when a save or getBitcoinTokenId throws, which
\* processBitcoinTransaction and processBitcoinBlock rethrow
BtcSaveRows(deps, rows, i, bad) ==
  IF i > Len(rows) THEN [ok |-> TRUE, deps |-> deps]
  ELSE IF i = bad \/ rows[i].tokenId = Null THEN [ok |-> FALSE, deps |-> deps]
  ELSE LET saved == SaveDeposit(deps, rows[i])
       IN IF saved.ok THEN BtcSaveRows(saved.deps, rows, i + 1, bad) ELSE saved

\* the two nested loops of checkBitcoinBlocks visit the heights from
\* lastProcessedBlock + 1 to currentHeight, one by one
BtcNextIter(t, h) ==
  IF h <= t.cur THEN [t EXCEPT !.pc = "getBlock", !.blockNum = h] ELSE IdleBtc

\* setInterval callback of monitorBitcoin starts: the timer is armed for both
\* networks, with or without a provider
BtcTimerFires(n, k) ==
  /\ ticksStarted < MaxTickStarts
  /\ btcTicks[n][k].pc = "idle"
  /\ \A j \in 1 .. (k - 1) : btcTicks[n][j].pc # "idle"
  /\ btcTicks' = [btcTicks EXCEPT ![n][k] =
                    [IdleBtc EXCEPT !.pc = "start", !.chain = BitcoinChain]]
  /\ ticksStarted' = ticksStarted + 1
  /\ UNCHANGED << providers, tip, settings, deposits, faults, credits, creditCalls,
                  processed >>
  /\ UNCHANGED nonBtcVars

\* checkBitcoinBlocks: `if (!provider) return`, then getBitcoinBlockHeight
BtcStart(n, k) ==
  LET t == btcTicks[n][k]
  IN /\ t.pc = "start"
     /\ btcTicks' = [btcTicks EXCEPT ![n][k] =
                       IF Monitored("btc", n)
                         THEN [t EXCEPT !.pc = "readLast", !.cur = tip[<< "btc", n >>]]
                         ELSE IdleBtc]
     /\ UNCHANGED << providers, tip, settings, deposits, ticksStarted, faults, credits,
                     creditCalls, processed >>
     /\ UNCHANGED nonBtcVars

\* checkBitcoinBlocks: getLastProcessedBlock and the first loop test
BtcReadLast(n, k) ==
  LET t == btcTicks[n][k]
      lastProcessedBlock == getLastProcessedBlock(settings, t.chain, n)
  IN /\ t.pc = "readLast"
     /\ btcTicks' = [btcTicks EXCEPT ![n][k] = BtcNextIter(t, lastProcessedBlock + 1)]
     /\ UNCHANGED << providers, tip, settings, deposits, ticksStarted, faults, credits,
                     creditCalls, processed >>
     /\ UNCHANGED nonBtcVars

\* getBitcoinBlock, called once: a block, no block (`continue`), or an error,
\* which checkBitcoinBlocks rethrows
BtcGetBlock(n, k) ==
  LET t == btcTicks[n][k]
  IN /\ t.pc = "getBlock"
     /\ \E o \in {"ok", "null", "err"} :
          /\ o # "ok" => faults < MaxFaults
          /\ faults' = IF o = "ok" THEN faults ELSE faults + 1
          /\ btcTicks' = [btcTicks EXCEPT ![n][k] =
                            CASE o = "ok" -> [t EXCEPT !.pc = "txs"]
                              [] o = "null" -> BtcNextIter(t, t.blockNum + 1)
                              [] OTHER -> IdleBtc]
     /\ UNCHANGED << providers, tip, settings, deposits, ticksStarted, credits,
                     creditCalls, processed >>
     /\ UNCHANGED nonBtcVars

\* processBitcoinBlock: the transaction loop
BtcProcessTxs(n, k) ==
  LET t == btcTicks[n][k]
      rows == BtcBlockRows(t.chain, n, BtcChain(n, t.blockNum), 1)
  IN /\ t.pc = "txs"
     /\ \E bad \in 0 .. Len(rows) :
          LET after == BtcSaveRows(deposits, rows, 1, bad)
          IN /\ bad # 0 => faults < MaxFaults
             /\ faults' = IF bad = 0 THEN faults ELSE faults + 1
             /\ deposits' = after.deps
             /\ processed' = IF after.ok
                               THEN [processed EXCEPT ![<< "btc", n >>] = @ \cup {t.blockNum}]
                               ELSE processed
             /\ btcTicks' = [btcTicks EXCEPT ![n][k] =
                               IF after.ok THEN [t EXCEPT !.pc = "save"] ELSE IdleBtc]
     /\ credits' = credits \o Zeros(Len(deposits') - Len(deposits))
     /\ creditCalls' = creditCalls \o Zeros(Len(deposits') - Len(deposits))
     /\ UNCHANGED << providers, tip, settings, ticksStarted >>
     /\ UNCHANGED nonBtcVars

\* saveLastProcessedBlock: the upsert
BtcSave(n, k) ==
  LET t == btcTicks[n][k]
  IN /\ t.pc = "save"
     /\ settings' = UpsertCheckpoint(settings, t.chain, n, t.blockNum)
     /\ btcTicks' = [btcTicks EXCEPT ![n][k].pc = "verify"]
     /\ UNCHANGED << providers, tip, deposits, ticksStarted, faults, credits,
                     creditCalls, processed >>
     /\ UNCHANGED nonBtcVars

\* saveLastProcessedBlock: the upsert throws; processBitcoinBlock and
\* checkBitcoinBlocks rethrow and the callback ends
BtcSaveFails(n, k) ==
  LET t == btcTicks[n][k]
  IN /\ t.pc = "save"
     /\ faults < MaxFaults
     /\ faults' = faults + 1
     /\ btcTicks' = [btcTicks EXCEPT ![n][k] = IdleBtc]
     /\ UNCHANGED << providers, tip, settings, deposits, ticksStarted, credits,
                     creditCalls, processed >>
     /\ UNCHANGED nonBtcVars

\* saveLastProcessedBlock: the read-back; a mismatch throws and ends the callback
BtcVerify(n, k) ==
  LET t == btcTicks[n][k]
  IN /\ t.pc = "verify"
     /\ btcTicks' = [btcTicks EXCEPT ![n][k] =
                       IF VerifyCheckpoint(settings, t.chain, n, t.blockNum)
                         THEN BtcNextIter(t, t.blockNum + 1)
                         ELSE IdleBtc]
     /\ UNCHANGED << providers, tip, settings, deposits, ticksStarted, faults, credits,
                     creditCalls, processed >>
     /\ UNCHANGED nonBtcVars

\* the host asks the application to shut down; the service has no handler for it
RequestStop ==
  /\ ~stopRequested
  /\ stopRequested' = TRUE
  /\ UNCHANGED << providers, tip, settings, deposits, balances, tronTicks, ticksStarted,
                  faults, credits, creditCalls, processed, blockQueues, evmProc, xrpTicks,
                  btcTicks, btcWallets, testResult >>

\* no call of testConnection so far
NoTest == [chain |-> Null, ok |-> FALSE, blockNumber |-> NoBlock, network |-> Null]

\* what callers pass to testConnection
TestInputs == {"ethereum", "eth", "bsc", "bitcoin", "btc", "trx", "xrp", "doge"}

\* testConnection(chain): the value returned, ok = FALSE when it throws (an
\* unsupported chain, or a call on a provider that is undefined)
testConnection(chain) ==
  LET answer(c) ==
        IF Monitored(c, "mainnet")
          THEN [chain |-> chain, ok |-> TRUE, blockNumber |-> tip[<< c, "mainnet" >>],
                network |-> "mainnet"]
          ELSE [NoTest EXCEPT !.chain = chain]
  IN CASE chain = "ethereum" -> answer("ethereum")
       [] chain = "bsc" -> answer("bsc")
       [] chain = "bitcoin" -> answer("btc")
       [] chain = "trx" -> answer("trx")
       [] OTHER -> [NoTest EXCEPT !.chain = chain]

\* a caller runs testConnection
TestConnection(chain) ==
  /\ testResult' = testConnection(chain)
  /\ UNCHANGED << providers, tip, settings, deposits, balances, tronTicks, ticksStarted,
                  faults, credits, creditCalls, processed, blockQueues, evmProc, xrpTicks,
                  btcTicks, btcWallets, stopRequested >>

(* ------------------------------ chain side ----------------------------- *)
\* the chain of a pull-mode pair grows by one block
AdvanceTip(c, n) ==
  /\ tip[<< c, n >>] < MaxTip
  /\ tip' = [tip EXCEPT ![<< c, n >>] = @ + 1]
  /\ UNCHANGED << providers, settings, deposits, balances, tronTicks, ticksStarted,
                  faults, credits, creditCalls, processed, blockQueues, evmProc, xrpTicks,
                  btcTicks, btcWallets, stopRequested, testResult >>

(* ---------------------------- specifications --------------------------- *)
SettingKeys == { CheckpointKey(p[1], p[2]) : p \in Pairs }

InitBalances ==
  { b \in [Users \X Symbols -> {0, NoBalance}] :
      /\ \A sym \in Symbols \ {"USDT"} : b[<< "u1", sym >>] = 0
      /\ \A sym \in Symbols : b[<< "u2", sym >>] = 0 }

NoTicks == [n \in Networks |-> [k \in TickIds |-> IdleTick]]
\* onModuleInit: the four queues, empty and not processing
NoQueues == [key \in EvmKeys |-> [isProcessing |-> FALSE, queue |-> << >>]]
NoProcs == [key \in EvmKeys |-> [k \in TickIds |-> IdleProc]]
NoXrpTicks == [n \in Networks |-> [k \in TickIds |-> IdleXrp]]
NoBtcTicks == [n \in Networks |-> [k \in TickIds |-> IdleBtc]]

\* the service starts on an empty database and a chain without blocks
InitFresh ==
  /\ tip = [p \in Pairs |-> 0]
  /\ settings = [key \in SettingKeys |-> NoSetting]
  /\ deposits = << >>
  /\ balances \in InitBalances
  /\ tronTicks = NoTicks
  /\ ticksStarted = 0
  /\ faults = 0
  /\ credits = << >>
  /\ creditCalls = << >>
  /\ processed = [p \in Pairs |-> {}]
  /\ blockQueues = NoQueues
  /\ evmProc = NoProcs
  /\ xrpTicks = NoXrpTicks
  /\ btcTicks = NoBtcTicks
  /\ btcWallets = BtcWalletRows("btc")
  /\ stopRequested = FALSE
  /\ testResult = NoTest

\* the Tron testnet rows a start finds after the blocks 1 .. ResumeHeight were
\* processed one after the other (TronBootReached)
TronResumeDeposits ==
  LET afterBlock1 == processTronBlock(<< >>, "testnet", TronChain("testnet", 1), 1, {})
  IN [j \in 1 .. Len(afterBlock1) |->
        [afterBlock1[j] EXCEPT
           !.confirmations = ResumeHeight - 1,
           !.status = NewStatus(ResumeHeight - 1, CONFIRMATION_BLOCKS.trx.testnet)]]

TronResumeSettings ==
  UpsertCheckpoint([key \in SettingKeys |-> NoSetting], "trx", "testnet", ResumeHeight)

\* the Tron testnet monitor, started on the database of an earlier run with
\* the chain at height h
TronStart(h) ==
  /\ providers = {<< "trx", "testnet" >>}
  /\ tip = [p \in Pairs |-> IF p = << "trx", "testnet" >> THEN h ELSE 0]
  /\ settings = TronResumeSettings
  /\ deposits = TronResumeDeposits
  /\ balances \in InitBalances
  /\ tronTicks = NoTicks
  /\ ticksStarted = 0
  /\ faults = 0
  /\ credits = Zeros(Len(TronResumeDeposits))
  /\ creditCalls = Zeros(Len(TronResumeDeposits))
  /\ processed = [p \in Pairs |->
                    IF p = << "trx", "testnet" >> THEN 1 .. ResumeHeight ELSE {}]
  /\ blockQueues = NoQueues
  /\ evmProc = NoProcs
  /\ xrpTicks = NoXrpTicks
  /\ btcTicks = NoBtcTicks
  /\ btcWallets = BtcWalletRows("btc")
  /\ stopRequested = FALSE
  /\ testResult = NoTest

InitTron == TronStart(ResumeHeight)

NextTron ==
  \/ AdvanceTip("trx", "testnet")
  \/ \E n \in Networks, k \in TickIds :
       \/ TronTimerFires(n, k)
       \/ TronReadLast(n, k)
       \/ TronFetch(n, k)
       \/ TronProcess(n, k)
       \/ TronConfLoad(n, k)
       \/ TronConfUpdate(n, k)
       \/ TronCredit(n, k)
       \/ TronCreditWrite(n, k)
       \/ TronSave(n, k)
       \/ TronSaveFails(n, k)

\* blocks the chain grew by while the service was down
MaxMissed == 1

\* the Ethereum mainnet monitor, started with the checkpoint of an earlier run
InitEvm ==
  /\ providers = {<< "eth", "mainnet" >>}
  /\ \E missed \in 0 .. MaxMissed :
       tip = [p \in Pairs |->
                IF p = << "eth", "mainnet" >> THEN ResumeHeight + missed ELSE 0]
  /\ settings = UpsertCheckpoint([key \in SettingKeys |-> NoSetting],
                                 "eth", "mainnet", ResumeHeight)
  /\ deposits = << >>
  /\ balances \in InitBalances
  /\ tronTicks = NoTicks
  /\ ticksStarted = 0
  /\ faults = 0
  /\ credits = << >>
  /\ creditCalls = << >>
  /\ processed = [p \in Pairs |->
                    IF p = << "eth", "mainnet" >> THEN 1 .. ResumeHeight ELSE {}]
  /\ blockQueues = NoQueues
  /\ evmProc = NoProcs
  /\ xrpTicks = NoXrpTicks
  /\ btcTicks = NoBtcTicks
  /\ btcWallets = BtcWalletRows("btc")
  /\ stopRequested = FALSE
  /\ testResult = NoTest

NextEvm ==
  \E key \in EvmKeys :
    \/ EvmBlockEvent(key[1], key[2])
    \/ \E k \in TickIds :
         \/ EvmGetBlock(key[1], key[2], k)
         \/ EvmProcessTxs(key[1], key[2], k)
         \/ EvmSave(key[1], key[2], k)
         \/ EvmSaveFails(key[1], key[2], k)
         \/ EvmVerify(key[1], key[2], k)
         \/ EvmDelayDone(key[1], key[2], k)

SpecEvm == InitEvm /\ [][NextEvm]_vars

\* one step of the execution that drains the queue of key: each of its awaits
\* (getBlock, the transaction loop, the upsert, the read-back, the delay)
\* settles, by resolving or by rejecting
EvmConsumerStep(key) ==
  \E k \in TickIds :
    \/ EvmGetBlock(key[1], key[2], k)
    \/ EvmProcessTxs(key[1], key[2], k)
    \/ EvmSave(key[1], key[2], k)
    \/ EvmSaveFails(key[1], key[2], k)
    \/ EvmVerify(key[1], key[2], k)
    \/ EvmDelayDone(key[1], key[2], k)

\* the EVM monitor when no await of the consumer hangs for ever
SpecEvmLive == SpecEvm /\ \A key \in EvmKeys : WF_vars(EvmConsumerStep(key))

\* the XRP testnet monitor, started with the checkpoint of an earlier run
InitXrp ==
  /\ providers = {<< "xrp", "testnet" >>}
  /\ tip = [p \in Pairs |-> IF p = << "xrp", "testnet" >> THEN ResumeHeight ELSE 0]
  /\ settings = UpsertCheckpoint([key \in SettingKeys |-> NoSetting],
                                 "xrp", "testnet", ResumeHeight)
  /\ deposits = << >>
  /\ balances \in InitBalances
  /\ tronTicks = NoTicks
  /\ ticksStarted = 0
  /\ faults = 0
  /\ credits = << >>
  /\ creditCalls = << >>
  /\ processed = [p \in Pairs |->
                    IF p = << "xrp", "testnet" >> THEN 1 .. ResumeHeight ELSE {}]
  /\ blockQueues = NoQueues
  /\ evmProc = NoProcs
  /\ xrpTicks = NoXrpTicks
  /\ btcTicks = NoBtcTicks
  /\ btcWallets = BtcWalletRows("btc")
  /\ stopRequested = FALSE
  /\ testResult = NoTest

NextXrp ==
  \/ AdvanceTip("xrp", "testnet")
  \/ \E n \in Networks, k \in TickIds :
       \/ XrpTimerFires(n, k)
       \/ XrpReadLast(n, k)
       \/ XrpLedger(n, k)
       \/ XrpLedgerFails(n, k)
       \/ XrpSave(n, k)
       \/ XrpSaveFails(n, k)
       \/ XrpVerify(n, k)

SpecXrp == InitXrp /\ [][NextXrp]_vars

SpecTron == InitTron /\ [][NextTron]_vars

\* the first run of the Tron testnet monitor, on an empty database, with one
\* callback at a time and no failure
InitTronBoot == providers = {<< "trx", "testnet" >>} /\ InitFresh

NextTronBoot ==
  \/ AdvanceTip("trx", "testnet")
  \/ TronTimerFires("testnet", 1)
  \/ TronReadLast("testnet", 1)
  \/ TronFetch("testnet", 1) /\ faults' = faults
  \/ TronProcess("testnet", 1) /\ faults' = faults
  \/ TronConfLoad("testnet", 1)
  \/ TronConfUpdate("testnet", 1)
  \/ TronCredit("testnet", 1)
  \/ TronCreditWrite("testnet", 1)
  \/ TronSave("testnet", 1)

SpecTronBoot == InitTronBoot /\ [][NextTronBoot]_vars

\* the database and chain InitTron starts from
TronBootReached ==
  /\ tip[<< "trx", "testnet" >>] = ResumeHeight
  /\ settings = TronResumeSettings
  /\ deposits = TronResumeDeposits
  /\ tronTicks = NoTicks

\* the same monitor when every spot balance row exists
InitTronFunded ==
  InitTron /\ (\A key \in Users \X Symbols : balances[key] # NoBalance)

SpecTronFunded == InitTronFunded /\ [][NextTron]_vars

\* the Tron testnet monitor started after the chain grew by more than a batch
\* while the service was down; one callback at a time
InitTronBatch == TronStart(ResumeHeight + TronBatchSize + 1)

NextTronBatch ==
  \/ TronTimerFires("testnet", 1)
  \/ TronReadLast("testnet", 1)
  \/ TronFetch("testnet", 1)
  \/ TronProcess("testnet", 1)
  \/ TronConfLoad("testnet", 1)
  \/ TronConfUpdate("testnet", 1)
  \/ TronCredit("testnet", 1)
  \/ TronCreditWrite("testnet", 1)
  \/ TronSave("testnet", 1)
  \/ TronSaveFails("testnet", 1)

SpecTronBatch == InitTronBatch /\ [][NextTronBatch]_vars

\* a start of the service that finds the database of an earlier run; the
\* chains of the pairs in grown are two blocks ahead of their checkpoints
Resumed(grown) ==
  /\ tip = [p \in Pairs |-> IF p \in grown THEN ResumeHeight + 2
                            ELSE IF p \in StartupPairs THEN ResumeHeight ELSE 0]
  /\ settings = UpsertCheckpoint(UpsertCheckpoint(TronResumeSettings,
                                   "xrp", "testnet", ResumeHeight),
                                 "btc", "testnet", ResumeHeight)
  /\ deposits = TronResumeDeposits
  /\ balances \in InitBalances
  /\ tronTicks = NoTicks
  /\ ticksStarted = 0
  /\ faults = 0
  /\ credits = Zeros(Len(TronResumeDeposits))
  /\ creditCalls = Zeros(Len(TronResumeDeposits))
  /\ processed = [p \in Pairs |-> IF p \in StartupPairs THEN 1 .. ResumeHeight ELSE {}]
  /\ blockQueues = NoQueues
  /\ evmProc = NoProcs
  /\ xrpTicks = NoXrpTicks
  /\ btcTicks = NoBtcTicks
  /\ stopRequested = FALSE
  /\ testResult = NoTest

\* the Bitcoin testnet monitor, started with the checkpoint of an earlier run;
\* the wallet rows carry the stored chain key or the external chain name
InitBtc ==
  /\ providers = {<< "btc", "testnet" >>}
  /\ btcWallets \in {BtcWalletRows("btc"), BtcWalletRows(BitcoinChain)}
  /\ Resumed({})

NextBtc ==
  \/ AdvanceTip("btc", "testnet")
  \/ \E n \in Networks, k \in TickIds :
       \/ BtcTimerFires(n, k)
       \/ BtcStart(n, k)
       \/ BtcReadLast(n, k)
       \/ BtcGetBlock(n, k)
       \/ BtcProcessTxs(n, k)
       \/ BtcSave(n, k)
       \/ BtcSaveFails(n, k)
       \/ BtcVerify(n, k)

SpecBtc == InitBtc /\ [][NextBtc]_vars

\* initializeProviders: each adapter of the three pull-mode testnet pairs
\* initialized or failed to
InitStartup ==
  /\ providers \in SUBSET StartupPairs
  /\ btcWallets \in {BtcWalletRows("btc"), BtcWalletRows(BitcoinChain)}
  /\ Resumed(StartupPairs)

\* the three monitors, one callback of each at a time
NextStartup ==
  \/ TronTimerFires("testnet", 1)
  \/ TronReadLast("testnet", 1)
  \/ TronFetch("testnet", 1)
  \/ TronProcess("testnet", 1)
  \/ TronConfLoad("testnet", 1)
  \/ TronConfUpdate("testnet", 1)
  \/ TronCredit("testnet", 1)
  \/ TronCreditWrite("testnet", 1)
  \/ TronSave("testnet", 1)
  \/ TronSaveFails("testnet", 1)
  \/ XrpTimerFires("testnet", 1)
  \/ XrpReadLast("testnet", 1)
  \/ XrpLedger("testnet", 1)
  \/ XrpLedgerFails("testnet", 1)
  \/ XrpSave("testnet", 1)
  \/ XrpSaveFails("testnet", 1)
  \/ XrpVerify("testnet", 1)
  \/ BtcTimerFires("testnet", 1)
  \/ BtcStart("testnet", 1)
  \/ BtcReadLast("testnet", 1)
  \/ BtcGetBlock("testnet", 1)
  \/ BtcProcessTxs("testnet", 1)
  \/ BtcSave("testnet", 1)
  \/ BtcSaveFails("testnet", 1)
  \/ BtcVerify("testnet", 1)

SpecStartup == InitStartup /\ [][NextStartup]_vars

\* the Tron testnet monitor, one callback at a time, and a host that may ask
\* for the shutdown
NextTronStop ==
  \/ RequestStop
  \/ AdvanceTip("trx", "testnet")
  \/ TronTimerFires("testnet", 1)
  \/ TronReadLast("testnet", 1)
  \/ TronFetch("testnet", 1)
  \/ TronProcess("testnet", 1)
  \/ TronConfLoad("testnet", 1)
  \/ TronConfUpdate("testnet", 1)
  \/ TronCredit("testnet", 1)
  \/ TronCreditWrite("testnet", 1)
  \/ TronSave("testnet", 1)
  \/ TronSaveFails("testnet", 1)

SpecTronStop == InitTron /\ [][NextTronStop]_vars

\* the mainnet pairs, the ones testConnection asks
MainnetPairs == {"eth", "bsc", "btc", "trx", "xrp"} \X {"mainnet"}

\* a running service with any of the mainnet adapters initialized, and its
\* callers of testConnection
InitTest ==
  /\ providers \in SUBSET MainnetPairs
  /\ tip = [p \in Pairs |-> IF p \in MainnetPairs THEN ResumeHeight ELSE 0]
  /\ settings = [key \in SettingKeys |-> NoSetting]
  /\ deposits = << >>
  /\ balances \in InitBalances
  /\ tronTicks = NoTicks
  /\ ticksStarted = 0
  /\ faults = 0
  /\ credits = << >>
  /\ creditCalls = << >>
  /\ processed = [p \in Pairs |-> {}]
  /\ blockQueues = NoQueues
  /\ evmProc = NoProcs
  /\ xrpTicks = NoXrpTicks
  /\ btcTicks = NoBtcTicks
  /\ btcWallets = BtcWalletRows("btc")
  /\ stopRequested = FALSE
  /\ testResult = NoTest

NextTest ==
  \/ \E p \in MainnetPairs : AdvanceTip(p[1], p[2])
  \/ \E chain \in TestInputs : TestConnection(chain)

SpecTest == InitTest /\ [][NextTest]_vars

\* the pairs of three monitors that run side by side
CrossPairs == {<< "trx", "testnet" >>, << "xrp", "testnet" >>, << "eth", "mainnet" >>}

\* the Tron testnet, XRP testnet and Ethereum mainnet monitors started on the
\* database of an earlier run: the Tron chain is two blocks ahead of its
\* checkpoint, the XRP ledger one, and Ethereum has one block to announce
InitCross ==
  /\ providers = CrossPairs
  /\ tip = [p \in Pairs |-> IF p = << "trx", "testnet" >> THEN ResumeHeight + 2
                            ELSE IF p = << "xrp", "testnet" >> THEN ResumeHeight + 1
                            ELSE IF p = << "eth", "mainnet" >> THEN MaxTip - 1 ELSE 0]
  /\ settings = UpsertCheckpoint(UpsertCheckpoint(TronResumeSettings,
                                   "xrp", "testnet", ResumeHeight),
                                 "eth", "mainnet", ResumeHeight)
  /\ deposits = TronResumeDeposits
  /\ balances = [key \in Users \X Symbols |-> 0]
  /\ tronTicks = NoTicks
  /\ ticksStarted = 0
  /\ faults = 0
  /\ credits = Zeros(Len(TronResumeDeposits))
  /\ creditCalls = Zeros(Len(TronResumeDeposits))
  /\ processed = [p \in Pairs |-> IF p \in CrossPairs THEN 1 .. ResumeHeight ELSE {}]
  /\ blockQueues = NoQueues
  /\ evmProc = NoProcs
  /\ xrpTicks = NoXrpTicks
  /\ btcTicks = NoBtcTicks
  /\ btcWallets = BtcWalletRows("btc")
  /\ stopRequested = FALSE
  /\ testResult = NoTest

\* one callback of the Tron and of the XRP monitor at a time, and the
\* Ethereum consumer
NextCross ==
  \/ TronTimerFires("testnet", 1)
  \/ TronReadLast("testnet", 1)
  \/ TronFetch("testnet", 1)
  \/ TronProcess("testnet", 1)
  \/ TronConfLoad("testnet", 1)
  \/ TronConfUpdate("testnet", 1)
  \/ TronCredit("testnet", 1)
  \/ TronCreditWrite("testnet", 1)
  \/ TronSave("testnet", 1)
  \/ TronSaveFails("testnet", 1)
  \/ XrpTimerFires("testnet", 1)
  \/ XrpReadLast("testnet", 1)
  \/ XrpLedger("testnet", 1)
  \/ XrpLedgerFails("testnet", 1)
  \/ XrpSave("testnet", 1)
  \/ XrpSaveFails("testnet", 1)
  \/ XrpVerify("testnet", 1)
  \/ EvmBlockEvent("eth", "mainnet")
  \/ \E k \in TickIds :
       \/ EvmGetBlock("eth", "mainnet", k)
       \/ EvmProcessTxs("eth", "mainnet", k)
       \/ EvmSave("eth", "mainnet", k)
       \/ EvmSaveFails("eth", "mainnet", k)
       \/ EvmVerify("eth", "mainnet", k)
       \/ EvmDelayDone("eth", "mainnet", k)

SpecCross == InitCross /\ [][NextCross]_vars

\* the transfers of an earlier block to the wallet TA: a USDT one and a TRX one
TronEarlierBlock ==
  << TronTx("t1", "TransferAssetContract", "41aa", "USDT", 3),
     TronTx("t8", "TransferContract", "41aa", Null, 2) >>

\* the rows of those transfers after the blocks up to ResumeHeight were processed
TronEarlierDeposits ==
  LET afterBlock1 == processTronBlock(<< >>, "testnet", TronEarlierBlock, 1, {})
  IN [j \in 1 .. Len(afterBlock1) |->
        [afterBlock1[j] EXCEPT
           !.confirmations = ResumeHeight - 1,
           !.status = NewStatus(ResumeHeight - 1, CONFIRMATION_BLOCKS.trx.testnet)]]

\* the Tron testnet monitor started three blocks behind the chain, with two
\* deposits of u1 one block short of their confirmations: the USDT one has no
\* spot balance row, the TRX one has
InitTronLater ==
  /\ providers = {<< "trx", "testnet" >>}
  /\ tip = [p \in Pairs |-> IF p = << "trx", "testnet" >> THEN ResumeHeight + 3 ELSE 0]
  /\ settings = TronResumeSettings
  /\ deposits = TronEarlierDeposits
  /\ balances = [key \in Users \X Symbols |->
                   IF key = << "u1", "USDT" >> THEN NoBalance ELSE 0]
  /\ tronTicks = NoTicks
  /\ ticksStarted = 0
  /\ faults = 0
  /\ credits = Zeros(Len(TronEarlierDeposits))
  /\ creditCalls = Zeros(Len(TronEarlierDeposits))
  /\ processed = [p \in Pairs |->
                    IF p = << "trx", "testnet" >> THEN 1 .. ResumeHeight ELSE {}]
  /\ blockQueues = NoQueues
  /\ evmProc = NoProcs
  /\ xrpTicks = NoXrpTicks
  /\ btcTicks = NoBtcTicks
  /\ btcWallets = BtcWalletRows("btc")
  /\ stopRequested = FALSE
  /\ testResult = NoTest

\* one step of a callback of the Tron monitor of network n
TronCallbackStep(n, k) ==
  \/ TronReadLast(n, k)
  \/ TronFetch(n, k)
  \/ TronProcess(n, k)
  \/ TronConfLoad(n, k)
  \/ TronConfUpdate(n, k)
  \/ TronCredit(n, k)
  \/ TronCreditWrite(n, k)
  \/ TronSave(n, k)
  \/ TronSaveFails(n, k)

NextTronLater ==
  \E n \in Networks, k \in TickIds :
    \/ TronTimerFires(n, k)
    \/ TronCallbackStep(n, k)

SpecTronLater == InitTronLater /\ [][NextTronLater]_vars

\* the same monitor when every await of a callback settles and the timer
\* keeps firing
SpecTronLaterLive ==
  /\ SpecTronLater
  /\ \A n \in Networks, k \in TickIds :
       WF_vars(TronCallbackStep(n, k)) /\ WF_vars(TronTimerFires(n, k))

(* ------------------------------- claims -------------------------------- *)
DepositIds == 1 .. Len(deposits)
Ckpt(c, n) == getLastProcessedBlock(settings, c, n)
StatusRank(st) == CASE st = "pending" -> 0 [] st = "confirming" -> 1 [] OTHER -> 2

\* some in-flight confirmation pass stands between the update of deposit id
\* and its credit
CreditInFlight(id) ==
  \E n \in Networks, k \in TickIds :
    /\ tronTicks[n][k].pc \in {"credit", "creditWrite"}
    /\ tronTicks[n][k].loaded[tronTicks[n][k].i].id = id

\* C1: every deposit that has reached confirmed has had its amount added to
\* the spot balance exactly once: never twice, and not zero times once the
\* pass that confirmed it has gone past its credit.
C1_CreditOnce ==
  \A id \in DepositIds :
    /\ credits[id] <= 1
    /\ (deposits[id].status = "confirmed" /\ ~CreditInFlight(id)) => credits[id] = 1

\* C2: a confirmed deposit keeps its status and its amount in every step, and
\* no step moves a status backwards along pending, confirming, confirmed.
C2_ConfirmedTerminal ==
  [][\A id \in DepositIds :
       /\ deposits[id].status = "confirmed" =>
            /\ deposits'[id].status = "confirmed"
            /\ deposits'[id].amount = deposits[id].amount
       /\ StatusRank(deposits'[id].status) >= StatusRank(deposits[id].status)]_vars

\* C3: no step lowers the stored confirmations of a deposit.
C3_ConfirmationsMonotone ==
  [][\A id \in DepositIds :
       deposits'[id].confirmations >= deposits[id].confirmations]_vars

C5_CheckpointMonotone ==
  [][\A p \in Pairs :
       getLastProcessedBlock(settings', p[1], p[2]) >= Ckpt(p[1], p[2])]_vars

\* the callback k of the Tron monitor n completes block H with this step
TronBlockDone(n, k, H) ==
  /\ tronTicks[n][k].pc = "save"
  /\ tronTicks[n][k].height = H
  /\ tronTicks'[n][k] # tronTicks[n][k]
  /\ faults' = faults

\* C6: when a Tron block H is completed the checkpoint becomes H, H minus the
\* checkpoint before is in 1 .. batchSize, and every height the checkpoint
\* moves over has been fetched and processed.
C6_NoGap ==
  [][\A n \in Networks, k \in TickIds, H \in 1 .. MaxTip :
       TronBlockDone(n, k, H) =>
         /\ getLastProcessedBlock(settings', "trx", n) = H
         /\ H - Ckpt("trx", n) \in 1 .. TronBatchSize
         /\ \A h \in (Ckpt("trx", n) + 1) .. H : h \in processed'[<< "trx", n >>]]_vars

\* C10: at most one timer callback of a Tron monitor is in progress at a time.
C10_OneTickAtATime ==
  \A n \in Networks : Cardinality({k \in TickIds : tronTicks[n][k].pc # "idle"}) <= 1

\* no callback of the monitor of pair p is between its start and its end
MonitorIdle(p) ==
  /\ p[1] \in {"eth", "bsc"} =>
       /\ \A k \in TickIds : evmProc[p][k].pc = "idle"
       /\ blockQueues[p].queue = << >>
  /\ p[1] = "trx" => \A k \in TickIds : tronTicks[p[2]][k].pc = "idle"
  /\ p[1] = "xrp" => \A k \in TickIds : xrpTicks[p[2]][k].pc = "idle"

\* the XRP payments of ledger h that are addressed to an owned wallet while an
\* active XRP token exists
XrpOwed(n, h) ==
  { XrpChain(n, h)[j].hash : j \in
      { j \in 1 .. Len(XrpChain(n, h)) :
          /\ XrpChain(n, h)[j].TransactionType = "Payment"
          /\ \E w \in Wallets : /\ w.blockchain = "xrp" /\ w.network = n
                                /\ w.address = XrpChain(n, h)[j].Destination
          /\ \E t \in Tokens : /\ t.symbol = "XRP" /\ t.networkVersion = "NATIVE"
                               /\ t.isActive } }

\* C7: every height the checkpoint of a monitored pair has moved over since
\* the start was fetched, and every XRP payment owed to a wallet in such a
\* ledger has its deposit row.
C7_CheckpointComplete ==
  \A p \in providers :
    \A h \in (ResumeHeight + 1) .. Ckpt(p[1], p[2]) :
      /\ h \in processed[p]
      /\ p[1] = "xrp" =>
           \A hash \in XrpOwed(p[2], h) :
             \E id \in DepositIds : deposits[id].txHash = hash

\* C8: once the monitor of its pair rests with the checkpoint above the block
\* of a deposit, the deposit is no longer pending, and it is confirmed and
\* credited once the checkpoint has reached blockNumber + required.
C8_ConfirmedOnEveryChain ==
  \A id \in DepositIds :
    LET d == deposits[id]
        p == << d.blockchain, d.network >>
        c == Ckpt(d.blockchain, d.network)
    IN (MonitorIdle(p) /\ c > d.blockNumber) =>
         /\ d.status # "pending"
         /\ c >= d.blockNumber + CONFIRMATION_BLOCKS[d.blockchain][d.network] =>
              (d.status = "confirmed" /\ credits[id] = 1)

\* C9: after a start with the persisted checkpoint ResumeHeight, block
\* processing leaves out no height above it: whenever the monitor rests, every
\* height from ResumeHeight + 1 up to the highest height handed to block
\* processing has been processed.
C9_ResumeCoversEveryHeight ==
  \A p \in providers :
    MonitorIdle(p) =>
      \A h \in (ResumeHeight + 1) .. MaxTip :
        (\E h2 \in processed[p] : h2 >= h) => h \in processed[p]

\* the executions of processQueueForChain inside the drain loop of a queue
EvmConsumers(key) == {k \in TickIds : evmProc[key][k].pc # "idle"}

\* C11: for each EVM queue at most one execution of processQueueForChain is
\* inside its drain loop, and it is there exactly while isProcessing is set; a
\* block event that finds the flag set only appends its height: it dequeues
\* nothing and starts no execution.
C11_SingleConsumer ==
  /\ [](\A key \in EvmKeys :
         /\ Cardinality(EvmConsumers(key)) <= 1
         /\ blockQueues[key].isProcessing <=> EvmConsumers(key) # {})
  /\ [][\A key \in EvmKeys :
         (blockQueues[key].isProcessing /\ tip'[key] # tip[key]) =>
           /\ blockQueues'[key].queue = Append(blockQueues[key].queue, tip'[key])
           /\ evmProc'[key] = evmProc[key]]_vars

\* C11 witness: a block was announced while the consumer was busy: its height
\* waits in the queue and one execution is in the loop.
C11_Witness ==
  LET key == << "eth", "mainnet" >>
  IN /\ blockQueues[key].isProcessing
     /\ blockQueues[key].queue # << >>
     /\ Cardinality(EvmConsumers(key)) = 1

\* the heights waiting in the queue of key
Queued(key) == {blockQueues[key].queue[j] : j \in 1 .. Len(blockQueues[key].queue)}

\* the consumer of key has taken height h from the queue and calls processEvmBlock
Handed(key, h) ==
  \E k \in TickIds :
    evmProc[key][k].pc = "getBlock" /\ evmProc[key][k].blockNumber = h

\* C12: every height that waits in an EVM queue is eventually taken from it
\* and handed to processEvmBlock.
C12_NoLostWakeup ==
  \A key \in EvmKeys : \A h \in 1 .. MaxTip :
    (h \in Queued(key)) ~> Handed(key, h)

\* C12 witness: the consumer is in its block delay, about to test the queue
\* again, and a height pushed meanwhile waits there.
C12_Witness ==
  LET key == << "eth", "mainnet" >>
  IN /\ \E k \in TickIds : evmProc[key][k].pc = "delay"
     /\ Len(blockQueues[key].queue) >= 1

\* this step hands height H of pair p to block processing
HandsBlock(p, H) ==
  \E k \in TickIds :
    \/ /\ p[1] = "trx"
       /\ tronTicks[p[2]][k].pc = "process" /\ tronTicks'[p[2]][k].pc = "confLoad"
       /\ tronTicks[p[2]][k].height = H
    \/ /\ p[1] = "xrp"
       /\ xrpTicks[p[2]][k].pc = "ledger" /\ xrpTicks'[p[2]][k].pc = "save"
       /\ faults' = faults
       /\ xrpTicks[p[2]][k].ledgerIndex = H
    \/ /\ p[1] \in {"eth", "bsc"}
       /\ evmProc[p][k].pc = "txs" /\ evmProc'[p][k].pc = "save"
       /\ evmProc[p][k].blockNumber = H

\* C13: for one (chain, network) every height handed to block processing is
\* above every height processed before: the order is strictly increasing and
\* no height is processed twice.
C13_OrderedOnce ==
  [][\A p \in Pairs : \A H \in 1 .. MaxTip :
       HandsBlock(p, H) => \A h \in processed[p] : h < H]_vars

\* C14: a callback whose fetch of block H failed after the retries attempts no
\* further block: no callback in flight has such a failure behind it.
C14_BlockLevelAbort ==
  \A n \in Networks, k \in TickIds :
    tronTicks[n][k].skip.kind \notin {"err", "err403"}

\* C15: a callback that got no block for height H writes no checkpoint at or
\* above H afterwards, unless H was fetched and processed after all.
C15_MissingBlockKept ==
  [][\A n \in Networks, k \in TickIds :
       (/\ tronTicks[n][k].skip.kind = "null"
        /\ tronTicks[n][k].pc = "save"
        /\ tronTicks'[n][k].pc # "save"
        /\ Ckpt("trx", n)' # Ckpt("trx", n)) =>
         \/ Ckpt("trx", n)' < tronTicks[n][k].skip.height
         \/ tronTicks[n][k].skip.height \in processed[<< "trx", n >>]]_vars

\* the transfers of the Tron block h that processTronBlock owes a deposit row
TronOwed(n, h) == {TronChain(n, h)[i].txID : i \in TronSaves(n, TronChain(n, h))}

\* C16: of the transfers of a processed Tron block, no more lack their row
\* than errors occurred: an error costs the one transaction it hit and the
\* rest of the block is still recorded.
C16_TxErrorIsolated ==
  \A n \in Networks : \A h \in processed[<< "trx", n >>] :
    Cardinality({hash \in TronOwed(n, h) :
                   \A id \in DepositIds : deposits[id].txHash # hash}) <= faults

\* C17: a pending deposit has 0 confirmations, and a confirming deposit has
\* more than 0 and fewer than the required confirmations of its pair.
C17_StatusMatchesConfirmations ==
  \A id \in DepositIds :
    LET d == deposits[id]
    IN /\ d.status = "pending" => d.confirmations = 0
       /\ d.status = "confirming" =>
            /\ 0 < d.confirmations
            /\ d.confirmations < CONFIRMATION_BLOCKS[d.blockchain][d.network]

\* C19: no deposit ever has a negative number of confirmations stored.
C19_ConfirmationsNotNegative ==
  \A id \in DepositIds : deposits[id].confirmations >= 0

\* C20: a deposit whose credit found no balance row stays confirmed and
\* uncredited, and updateWalletBalance is not called for it again.
C20_MissingRowFinal ==
  \A id \in DepositIds :
    (balances[BalanceKey(deposits[id])] = NoBalance /\ creditCalls[id] >= 1) =>
      /\ deposits[id].status = "confirmed"
      /\ credits[id] = 0
      /\ creditCalls[id] = 1

\* the required confirmations as the rule states them (mainnet / testnet)
RequiredConfirmations ==
  [eth |-> [mainnet |-> 12, testnet |-> 5], bsc |-> [mainnet |-> 15, testnet |-> 6],
   btc |-> [mainnet |-> 3, testnet |-> 2], trx |-> [mainnet |-> 20, testnet |-> 10],
   xrp |-> [mainnet |-> 4, testnet |-> 2]]

C21_BalanceOnlyGrows ==
  [][/\ \A key \in Users \X Symbols : balances'[key] >= balances[key]
     /\ balances' # balances =>
          \E n \in Networks, k \in TickIds :
            /\ tronTicks[n][k].pc = "creditWrite"
            /\ LET d == tronTicks[n][k].loaded[tronTicks[n][k].i]
               IN balances' = [balances EXCEPT ![BalanceKey(d)] = @ + d.amount]]_vars

\* C22: the heights a Tron callback sets out to visit after it read the
\* checkpoint, checkpoint + 1 .. endBlock, are at most 5 and none is above the
\* current height it read.
C22_TronBatchBound ==
  [][\A n \in Networks, k \in TickIds :
       (tronTicks[n][k].pc = "readLast" /\ tronTicks'[n][k].pc = "fetch") =>
         /\ tronTicks'[n][k].endBlock - Ckpt("trx", n) <= 5
         /\ tronTicks'[n][k].endBlock <= tronTicks[n][k].cur]_vars

\* C23: a callback that gave up block H on HTTP 403 writes no checkpoint at
\* or above H afterwards: the checkpoint it leaves behind is below H, so that
\* the next callback starts at H.
C23_RateLimitedBlockKept ==
  [][\A n \in Networks, k \in TickIds :
       (/\ tronTicks[n][k].skip.kind = "err403"
        /\ tronTicks[n][k].pc = "save"
        /\ tronTicks'[n][k].pc # "save"
        /\ Ckpt("trx", n)' # Ckpt("trx", n)) =>
         Ckpt("trx", n)' < tronTicks[n][k].skip.height]_vars

\* C24: a block fetch surfaces its error only after 3 attempts, 5 when the
\* last error is an HTTP 403 of Tron.
C24_RetryPolicy ==
  \A n \in Networks, k \in TickIds :
    /\ tronTicks[n][k].skip.kind = "err" => tronTicks[n][k].skip.attempts = 3
    /\ tronTicks[n][k].skip.kind = "err403" => tronTicks[n][k].skip.attempts = 5

\* what a timer of pair p does next when its adapter initialized: the callback
\* starts (Tron, XRP), or passes the provider test (Bitcoin)
StillMonitored(p) ==
  CASE p[1] = "trx" ->
         (tronTicks[p[2]][1].pc = "idle" /\ ticksStarted < MaxTickStarts) =>
           ENABLED TronTimerFires(p[2], 1)
    [] p[1] = "xrp" ->
         (xrpTicks[p[2]][1].pc = "idle" /\ ticksStarted < MaxTickStarts) =>
           ENABLED XrpTimerFires(p[2], 1)
    [] OTHER ->
         btcTicks[p[2]][1].pc = "start" =>
           ENABLED (BtcStart(p[2], 1) /\ btcTicks'[p[2]][1].pc = "readLast")

\* the chain values the deposit rows of a pair can carry
RowChains(p) == IF p[1] = "btc" THEN {"btc", BitcoinChain} ELSE {p[1]}

\* C25: the provider set never changes after the start; for a pair whose
\* adapter failed to initialize no block is processed and no checkpoint or
\* deposit is written; the timer of every pair whose adapter initialized
\* still starts its callback.
C25_InitFailureIsolated ==
  /\ [][/\ providers' = providers
        /\ \A p \in StartupPairs \ providers :
             /\ processed'[p] = processed[p]
             /\ settings'[CheckpointKey(p[1], p[2])] = settings[CheckpointKey(p[1], p[2])]
             /\ \A id \in (DOMAIN deposits') \ (DOMAIN deposits) :
                  ~ (/\ deposits'[id].network = p[2]
                     /\ deposits'[id].blockchain \in RowChains(p))]_vars
  /\ [](\A p \in providers : StillMonitored(p))

\* C25 witness: the adapter of one pair failed while its chain has a block to
\* process, and the monitor of another pair has processed and saved its block
C25_Witness ==
  \E p \in StartupPairs \ providers, q \in providers :
    /\ tip[p] > Ckpt(p[1], p[2])
    /\ (ResumeHeight + 1) \in processed[q]
    /\ Ckpt(q[1], q[2]) = ResumeHeight + 1

\* C26: once the shutdown is requested no timer callback starts and no
\* callback in flight starts another block.
C26_CooperativeStop ==
  [][stopRequested =>
       \A n \in Networks, k \in TickIds :
         /\ tronTicks[n][k].pc = "idle" => tronTicks'[n][k].pc = "idle"
         /\ tronTicks'[n][k].pc = "fetch" =>
              /\ tronTicks[n][k].pc = "fetch"
              /\ tronTicks'[n][k].height = tronTicks[n][k].height]_vars

\* C27: the token of every deposit row is an active token.
C27_ActiveTokensOnly ==
  \A id \in DepositIds : TokenById(deposits[id].tokenId).isActive

\* C28: a Bitcoin callback looks wallets up with the chain value btc, no
\* deposit row carries the chain value bitcoin, and no checkpoint key does.
C28_ChainKeyNormalized ==
  /\ \A n \in Networks, k \in TickIds :
       btcTicks[n][k].pc = "txs" => btcTicks[n][k].chain = "btc"
  /\ \A id \in DepositIds : deposits[id].blockchain # "bitcoin"
  /\ \A key \in DOMAIN settings : settings[key] # NoSetting => key[2] # "bitcoin"

\* C29: once an EVM block is processed, every transaction of it that calls an
\* active token's contract and whose receipt holds a Transfer to an owned
\* wallet address has a deposit row for that wallet, of value / 10^decimals.
C29_Erc20Detected ==
  \A key \in EvmKeys : \A h \in processed[key] :
    \A j \in 1 .. Len(EvmChain(key[1], key[2], h)) :
      LET tx == EvmChain(key[1], key[2], h)[j]
          token == getTokenForTransaction(key[1], tx)
      IN (tx.to # Null /\ token # NoToken /\ token.networkVersion # "NATIVE") =>
           \A l \in 1 .. Len(tx.logs) : \A w \in Wallets :
             (/\ tx.logs[l].name = "Transfer"
              /\ w.blockchain = key[1] /\ w.network = key[2]
              /\ toLowerCase(w.address) = toLowerCase(tx.logs[l].to)) =>
               \E id \in DepositIds :
                 /\ deposits[id].txHash = tx.hash
                 /\ deposits[id].walletId = w.id
                 /\ deposits[id].tokenId = token.id
                 /\ deposits[id].amount = formatUnits(tx.logs[l].value, token.decimals)

\* C30: once a Bitcoin block is processed, each output of each of its
\* transactions to the address of a wallet has exactly one deposit row for
\* that wallet with the value of the output, and the transaction has no
\* other row.
C30_BitcoinMultiOutput ==
  \A n \in Networks : \A h \in processed[<< "btc", n >>] :
    \A i \in 1 .. Len(BtcChain(n, h)) :
      LET tx == BtcChain(n, h)[i]
          rowsOf == {id \in DepositIds : deposits[id].txHash = tx.txid}
          owned(j, w) == /\ w.network = n
                         /\ \E a \in 1 .. Len(tx.vout[j].addresses) :
                              w.address = tx.vout[j].addresses[a]
      IN /\ \A j \in 1 .. Len(tx.vout) : \A w \in btcWallets :
              owned(j, w) =>
                Cardinality({id \in rowsOf : /\ deposits[id].walletId = w.id
                                             /\ deposits[id].amount = tx.vout[j].value}) = 1
         /\ \A id \in rowsOf :
              \E j \in 1 .. Len(tx.vout), w \in btcWallets :
                /\ owned(j, w)
                /\ deposits[id].walletId = w.id
                /\ deposits[id].amount = tx.vout[j].value

\* the active tokens a transaction resolves to: NATIVE of the chain for a
\* native transfer, the TRC20 of its asset name or the token of the contract
\* it calls otherwise
TrackedTron(tx) ==
  {t \in Tokens : /\ t.blockchain = "trx" /\ t.isActive
                  /\ \/ tx.type = "TransferContract" /\ t.networkVersion = "NATIVE"
                     \/ /\ tx.type = "TransferAssetContract"
                        /\ t.networkVersion = "TRC20" /\ t.symbol = tx.asset_name}
TrackedXrp(tx) ==
  {t \in Tokens : t.symbol = "XRP" /\ t.networkVersion = "NATIVE" /\ t.isActive}
TrackedEvm(chain, tx) ==
  {t \in Tokens : /\ t.blockchain = chain /\ t.isActive
                  /\ IF tx.data = Null \/ tx.data = "0x"
                       THEN t.networkVersion = "NATIVE"
                       ELSE tx.to # Null /\ t.contractAddress = toLowerCase(tx.to)}

\* the transactions of the chains, each with the ids of its tracked tokens
Transfers ==
  UNION { UNION {
    {[hash |-> TronChain(n, h)[i].txID,
      tokens |-> {t.id : t \in TrackedTron(TronChain(n, h)[i])}] :
       i \in 1 .. Len(TronChain(n, h))}
    \cup {[hash |-> XrpChain(n, h)[i].hash,
           tokens |-> {t.id : t \in TrackedXrp(XrpChain(n, h)[i])}] :
            i \in 1 .. Len(XrpChain(n, h))}
    \cup UNION {{[hash |-> EvmChain(c, n, h)[i].hash,
                  tokens |-> {t.id : t \in TrackedEvm(c, EvmChain(c, n, h)[i])}] :
                   i \in 1 .. Len(EvmChain(c, n, h))} : c \in {"eth", "bsc"}}
    : h \in 1 .. MaxTip } : n \in Networks }

\* C31: a deposit row of a transaction carries one of the active tokens the
\* transaction resolves to; a transaction that resolves to no active token
\* has no row.
C31_UntrackedTokenIgnored ==
  \A id \in DepositIds : \A tr \in Transfers :
    deposits[id].txHash = tr.hash => deposits[id].tokenId \in tr.tokens

\* the name testConnection takes for a chain key
ChainName(c) == CASE c = "eth" -> "ethereum" [] c = "btc" -> "bitcoin" [] OTHER -> c

\* C32: a call of testConnection changes no checkpoint, queue, deposit or
\* balance, and for a chain whose mainnet adapter initialized it returns the
\* current height of the chain with network mainnet.
C32_TestConnection ==
  [][testResult' # testResult =>
       /\ UNCHANGED << settings, blockQueues, deposits, balances >>
       /\ \A c \in {"eth", "bsc", "btc", "trx", "xrp"} :
            (testResult'.chain = ChainName(c) /\ Monitored(c, "mainnet")) =>
              testResult' = [chain |-> ChainName(c), ok |-> TRUE,
                             blockNumber |-> tip[<< c, "mainnet" >>],
                             network |-> "mainnet"]]_vars

\* the step is one of the monitor of pair p: a callback of it, or its queue
\* and consumer, changes
Acts(p) ==
  CASE p[1] = "trx" -> tronTicks'[p[2]] # tronTicks[p[2]]
    [] p[1] = "xrp" -> xrpTicks'[p[2]] # xrpTicks[p[2]]
    [] p[1] = "btc" -> btcTicks'[p[2]] # btcTicks[p[2]]
    [] OTHER -> evmProc'[p] # evmProc[p] \/ blockQueues'[p] # blockQueues[p]

\* the deposit rows of a pair
RowsOf(deps, p) ==
  SelectSeq(deps, LAMBDA d : d.network = p[2] /\ d.blockchain \in RowChains(p))

\* a callback or consumer of pair p is in flight
InFlight(p) ==
  CASE p[1] = "trx" -> tronTicks[p[2]][1].pc # "idle"
    [] p[1] = "xrp" -> xrpTicks[p[2]][1].pc # "idle"
    [] p[1] = "btc" -> btcTicks[p[2]][1].pc # "idle"
    [] OTHER -> \E k \in TickIds : evmProc[p][k].pc # "idle"

\* the next step of what is in flight for pair p
StepOf(p) ==
  CASE p[1] = "trx" ->
         \/ TronReadLast(p[2], 1) \/ TronFetch(p[2], 1) \/ TronProcess(p[2], 1)
         \/ TronConfLoad(p[2], 1) \/ TronConfUpdate(p[2], 1) \/ TronCredit(p[2], 1)
         \/ TronCreditWrite(p[2], 1) \/ TronSave(p[2], 1)
    [] p[1] = "xrp" ->
         \/ XrpReadLast(p[2], 1) \/ XrpLedger(p[2], 1) \/ XrpSave(p[2], 1)
         \/ XrpVerify(p[2], 1)
    [] p[1] = "btc" ->
         \/ BtcStart(p[2], 1) \/ BtcReadLast(p[2], 1) \/ BtcGetBlock(p[2], 1)
         \/ BtcProcessTxs(p[2], 1) \/ BtcSave(p[2], 1) \/ BtcVerify(p[2], 1)
    [] OTHER -> EvmConsumerStep(p)

C34_PullCatchUp ==
  [][\A n \in Networks, k \in TickIds :
       (/\ xrpTicks[n][k].pc # "idle"
        /\ xrpTicks'[n][k].pc = "idle"
        /\ faults' = 0) =>
         \/ /\ xrpTicks[n][k].pc = "readLast"
            /\ Ckpt("xrp", n) >= xrpTicks[n][k].cur
            /\ Ckpt("xrp", n)' = Ckpt("xrp", n)
         \/ /\ xrpTicks[n][k].pc = "verify"
            /\ xrpTicks[n][k].ledgerIndex = xrpTicks[n][k].cur
            /\ Ckpt("xrp", n)' = xrpTicks[n][k].cur]_vars

\* C35: a callback that goes on after saveLastProcessedBlock(h) reads h as the
\* checkpoint; when the row read back is absent or holds another height the
\* callback ends; getLastProcessedBlock of a pair without row is 0.
C35_WriteVerifyRoundTrip ==
  /\ [][\A n \in Networks, k \in TickIds :
          (xrpTicks[n][k].pc = "verify" /\ xrpTicks'[n][k] # xrpTicks[n][k]) =>
            /\ xrpTicks'[n][k].pc = "ledger" =>
                 getLastProcessedBlock(settings', "xrp", n) = xrpTicks[n][k].ledgerIndex
            /\ (\/ settings[CheckpointKey("xrp", n)] = NoSetting
                \/ settings[CheckpointKey("xrp", n)] # toString(xrpTicks[n][k].ledgerIndex)) =>
                 xrpTicks'[n][k] = IdleXrp]_vars
  /\ [](\A p \in Pairs :
          settings[CheckpointKey(p[1], p[2])] = NoSetting =>
            getLastProcessedBlock(settings, p[1], p[2]) = 0)

\* C35 witness: a callback went on to the next ledger after its save
\* returned, and the other network has no checkpoint row
C35_Witness ==
  \E n \in Networks, k \in TickIds :
    /\ xrpTicks[n][k].pc = "ledger"
    /\ xrpTicks[n][k].ledgerIndex = Ckpt("xrp", n) + 1
    /\ xrpTicks[n][k].ledgerIndex > ResumeHeight + 1
    /\ \E m \in Networks : settings[CheckpointKey("xrp", m)] = NoSetting

\* C36: at every suspension point a queue whose isProcessing is false is
\* empty: a height that waits in a queue has a consumer running.
C36_QueueFlag ==
  \A key \in EvmKeys :
    ~blockQueues[key].isProcessing => blockQueues[key].queue = << >>

\* C36 witness: the consumer has processed an announced block and returned:
\* the flag is clear and the queue is empty.
C36_Witness ==
  LET key == << "eth", "mainnet" >>
  IN /\ ~blockQueues[key].isProcessing
     /\ blockQueues[key].queue = << >>
     /\ \E h \in processed[key] : h > ResumeHeight

\* C37: once no more heights are pushed, the consumer ends with the queue
\* empty and isProcessing false, and stays so, whatever block processing threw.
C37_ConsumerTerminates ==
  \A key \in EvmKeys :
    (tip[key] = MaxTip) ~>
      [](/\ ~blockQueues[key].isProcessing
         /\ blockQueues[key].queue = << >>
         /\ EvmConsumers(key) = {})

\* C37 witness: the last block was announced, a call of block processing
\* threw, and the consumer has returned.
C37_Witness ==
  LET key == << "eth", "mainnet" >>
  IN /\ tip[key] = MaxTip
     /\ faults = MaxFaults
     /\ EvmConsumers(key) = {}
     /\ ~blockQueues[key].isProcessing
     /\ Len(blockQueues[key].queue) = 0

\* C38: no step removes a deposit row or changes a field of it other than
\* confirmations and status, and a row changes only in the update of a
\* confirmation pass of its own chain and network that loaded it as pending or
\* confirming with a block number.
C38_DepositFrame ==
  [][/\ Len(deposits') >= Len(deposits)
     /\ \A i \in 1 .. Len(deposits) :
          /\ [deposits'[i] EXCEPT !.confirmations = deposits[i].confirmations,
                                  !.status = deposits[i].status] = deposits[i]
          /\ deposits'[i] # deposits[i] =>
               \E n \in Networks, k \in TickIds :
                 /\ tronTicks[n][k].pc = "confUpdate"
                 /\ deposits[i].blockchain = "trx"
                 /\ deposits[i].network = n
                 /\ LET loaded == tronTicks[n][k].loaded[tronTicks[n][k].i]
                    IN /\ loaded.id = deposits[i].id
                       /\ loaded.status \in {"pending", "confirming"}
                       /\ loaded.blockNumber # NoBlock]_vars

\* C38 witness: a confirmation pass has updated a Tron deposit of this run
\* while a deposit of another chain is in the table.
C38_Witness ==
  \E i, j \in 1 .. Len(deposits) :
    /\ deposits[i].blockchain = "trx"
    /\ deposits[i].blockNumber > ResumeHeight
    /\ deposits[i].status # "pending"
    /\ deposits[j].blockchain # "trx"

\* the credit of deposit d1 has thrown 'Wallet balance not found' in a pass
CreditThrew(d1) ==
  creditCalls[d1.id] > 0 /\ BalanceRead(balances, d1) = NoBalance

\* deposit d stood behind a deposit whose credit threw, in the pass that
\* first confirmed that deposit
Starved(d) ==
  \E j \in 1 .. (d.id - 1) :
    /\ deposits[j].blockchain = d.blockchain /\ deposits[j].network = d.network
    /\ CreditThrew(deposits[j])
    /\ d.blockNumber # NoBlock /\ d.blockNumber <= ResumeHeight

\* no later block of network n is left to process: the checkpoint is at the
\* height of the chain, or the last callback of the run has returned
NoLaterBlock(n) ==
  \/ Ckpt("trx", n) >= tip[<< "trx", n >>]
  \/ /\ ticksStarted = MaxTickStarts
     /\ \A k \in TickIds : tronTicks[n][k].pc = "idle"

\* C39: the step in which a credit throws changes no deposit and ends the
\* pass; a deposit that stood behind the throwing credit is credited at most
\* once, and, as long as later blocks are processed, it ends confirmed and
\* credited exactly once.
C39_CreditFailureNoStarvation ==
  /\ [][\A n \in Networks, k \in TickIds :
          (/\ tronTicks[n][k].pc = "credit"
           /\ tronTicks'[n][k].pc # "credit"
           /\ BalanceRead(balances, tronTicks[n][k].loaded[tronTicks[n][k].i]) = NoBalance) =>
            /\ deposits' = deposits
            /\ tronTicks'[n][k].loaded = << >>]_vars
  /\ [](\A i \in 1 .. Len(deposits) :
          Starved(deposits[i]) => credits[i] <= 1)
  /\ \A i \in 1 .. Len(TronEarlierDeposits) :
       Starved(deposits[i]) ~>
         \/ deposits[i].status = "confirmed" /\ credits[i] = 1
         \/ NoLaterBlock(deposits[i].network)

====
